---- MODULE Spec2Model ----
(***************************************************************************)
(* Rule-relationship loader, transactional rule runner, unified BFS        *)
(* execution engine, approval pipeline and rule maintenance of             *)
(* bfs_approvals.py, and the rule lock of core.py.                         *)
(***************************************************************************)
EXTENDS Integers, Sequences, FiniteSets, Bags, TLC

VARIABLES
    BRM_RULES,                  \* rule table: RULE_ID -> row
    BRM_GLOBAL_CRITICAL_LINKS,  \* set of <<GCR_RULE_ID, TARGET_RULE_ID>>
    RULE_CONFLICTS,             \* set of <<RULE_ID1, RULE_ID2>>
    COMPOSITE_RULES,            \* set of <<COMPOSITE_RULE_ID, LOGIC_EXPR>>
    RULE_EXECUTION_LOGS,        \* sequence of execution-log rows, oldest first
    pc,                         \* position of the caller
    dry_run,                    \* argument of execute_rules_unified_bfs
    overall_valid,              \* result of run_data_validations
    adjacency, roots, parent_map, rule_map,   \* locals of the BFS run
    executed, skipped, queue,                 \* locals of the BFS run
    rule_info,                  \* argument of the last runner call
    db_result,                  \* what the database did with that call's SQL
    lastTx,                     \* statements and result of the last runner call
    RULE_LOCKS,                 \* set of lock rows
    now,                        \* GETDATE(), in minutes
    call,                       \* a caller of lock_rule / unlock_rule, one call at a time
    lockers,                    \* two callers inside lock_rule at the same time
    BUSINESS_GROUP_APPROVERS,   \* set of <<GROUP_NAME, USERNAME>>
    BRM_RULE_APPROVALS,         \* bag of approval rows
    build,                      \* the rules create_multistep_approvals was called on
    crud                        \* a caller of update_rule / deactivate_rule / delete_rule

vars == <<BRM_RULES, BRM_GLOBAL_CRITICAL_LINKS, RULE_CONFLICTS, COMPOSITE_RULES,
          RULE_EXECUTION_LOGS, pc, dry_run, overall_valid,
          adjacency, roots, parent_map, rule_map, executed, skipped, queue,
          rule_info, db_result, lastTx,
          RULE_LOCKS, now, call, lockers, BUSINESS_GROUP_APPROVERS, BRM_RULE_APPROVALS,
          build, crud>>

tableVars == <<BRM_RULES, BRM_GLOBAL_CRITICAL_LINKS, RULE_CONFLICTS, COMPOSITE_RULES>>
runnerVars == <<rule_info, db_result, lastTx>>
bfsVars == <<overall_valid, adjacency, roots, parent_map, rule_map,
             executed, skipped, queue>>
\* everything a BFS run or a runner call reads or writes besides the tables
runVars == <<RULE_EXECUTION_LOGS, pc, dry_run, bfsVars, runnerVars>>
lockVars == <<RULE_LOCKS, now, call, lockers>>
approvalVars == <<BUSINESS_GROUP_APPROVERS, BRM_RULE_APPROVALS, build>>
\* everything rule maintenance reads or writes besides the tables
editVars == <<lockVars, approvalVars, crud>>

-----------------------------------------------------------------------------
(* Bounds of the model *)

MaxRule == 3          \* rule ids of the rule table are 1..MaxRule
MaxSpecial == 1       \* rows of the rule table that are critical, global or decision tables
MaxExtra == 1         \* rows in the link, conflict and composite tables together
MaxValidations == 1   \* rows of DATA_VALIDATIONS
MaxRows == 2          \* rows a rule's SQL returns
MaxLog == 5           \* entries kept of `executed` and of the execution log
MaxQueue == 4         \* length of the BFS work queue

RuleIds == 1 .. MaxRule

-----------------------------------------------------------------------------
(* Sequence helpers *)

Range(s) == { s[i] : i \in DOMAIN s }

Perms(S) == { s \in [1 .. Cardinality(S) -> S] : Range(s) = S }

\* list.append on a list of which the model keeps the first MaxLog entries
\* (the code only ever appends to these lists and never reads them back)
Append_(s, e) == IF Len(s) < MaxLog THEN Append(s, e) ELSE s

Occurrences(s, e) == Cardinality({ i \in DOMAIN s : s[i] = e })

-----------------------------------------------------------------------------
(* Composite-reference syntax: re.compile(r"Rule\s*(\d+)", re.IGNORECASE)  *)
(* A logic expression is a sequence of one-character strings.              *)

Digits == {"0", "1", "2", "3", "4", "5", "6", "7", "8", "9"}

DigitVal(c) ==
    CASE c = "0" -> 0 [] c = "1" -> 1 [] c = "2" -> 2 [] c = "3" -> 3
      [] c = "4" -> 4 [] c = "5" -> 5 [] c = "6" -> 6 [] c = "7" -> 7
      [] c = "8" -> 8 [] c = "9" -> 9

Whitespace == {" ", "\t", "\n"}

\* the literal "Rule", case-insensitive, starts at position i of expr
MatchesRuleAt(expr, i) ==
    /\ i + 3 <= Len(expr)
    /\ expr[i] \in {"R", "r"}
    /\ expr[i + 1] \in {"U", "u"}
    /\ expr[i + 2] \in {"L", "l"}
    /\ expr[i + 3] \in {"E", "e"}

\* \s* : first position >= j that holds no whitespace
RECURSIVE SkipSpace(_, _)
SkipSpace(expr, j) ==
    IF j <= Len(expr) /\ expr[j] \in Whitespace THEN SkipSpace(expr, j + 1) ELSE j

\* \d+ : first position >= k that holds no digit
RECURSIVE DigitsEnd(_, _)
DigitsEnd(expr, k) ==
    IF k <= Len(expr) /\ expr[k] \in Digits THEN DigitsEnd(expr, k + 1) ELSE k

\* int(m) of the digits expr[a .. b-1]
RECURSIVE ToInt(_, _, _)
ToInt(expr, a, b) ==
    IF a >= b THEN 0 ELSE ToInt(expr, a, b - 1) * 10 + DigitVal(expr[b - 1])

\* pattern.findall(expr), scanning from position i: the captured numbers in order
RECURSIVE FindAllFrom(_, _)
FindAllFrom(expr, i) ==
    IF i > Len(expr) THEN <<>>
    ELSE IF MatchesRuleAt(expr, i)
         THEN LET d == SkipSpace(expr, i + 4)
                  e == DigitsEnd(expr, d)
              IN  IF e > d
                  THEN <<ToInt(expr, d, e)>> \o FindAllFrom(expr, e)
                  ELSE FindAllFrom(expr, i + 1)
         ELSE FindAllFrom(expr, i + 1)

findall(expr) == FindAllFrom(expr, 1)

-----------------------------------------------------------------------------
(* load_rule_relationships *)

ParentEdges(rules) ==
    { <<rules[rid].PARENT_RULE_ID, rid>> :
        rid \in { r \in DOMAIN rules : rules[r].PARENT_RULE_ID # 0 } }

GcrEdges(links) == links

\* faulty variant of ConflictEdges: only the edge r1 -> r2 is added
ConflictEdges_OneWay(conflicts) == conflicts

ConflictEdges(conflicts) ==
    conflicts \cup { <<c[2], c[1]>> : c \in conflicts }

CompositeEdges(composites) ==
    UNION { { <<m, c[1]>> : m \in Range(findall(c[2])) } : c \in composites }

AllEdges(rules, links, conflicts, composites) ==
    ParentEdges(rules) \cup GcrEdges(links) \cup ConflictEdges(conflicts)
        \cup CompositeEdges(composites)

\* the dict rule id -> set of related rule ids; a key exists for every edge source
BuildAdjacency(edges) ==
    [ k \in { e[1] : e \in edges } |-> { e[2] : e \in { x \in edges : x[1] = k } } ]

BuildParentMap(rules) ==
    [ rid \in { r \in DOMAIN rules : rules[r].PARENT_RULE_ID # 0 } |->
        rules[rid].PARENT_RULE_ID ]

\* faulty variant of RootSet: a rule some link, conflict or composite row points to
\* is not taken as a root
RootSet_NoEdgeTargets(rules) ==
    { rid \in DOMAIN rules :
        /\ rules[rid].PARENT_RULE_ID = 0
        /\ rid \notin { e[2] : e \in GcrEdges(BRM_GLOBAL_CRITICAL_LINKS)
                                  \cup ConflictEdges(RULE_CONFLICTS)
                                  \cup CompositeEdges(COMPOSITE_RULES) } }

\* faulty variant of RootSet: every id of the rule table is taken as a root
RootSet_AllIds(rules) == DOMAIN rules

\* ids of the rule table that are no key of the parent map
RootSet(rules) == { rid \in DOMAIN rules : rid \notin DOMAIN BuildParentMap(rules) }

\* adjacency.get(rid, [])
Adj(adj, rid) == IF rid \in DOMAIN adj THEN adj[rid] ELSE {}

-----------------------------------------------------------------------------
(* skip_all_descendants *)

SetToSeq(S) == CHOOSE s \in Perms(S) : TRUE

\* the while loop over the deque q, from the skipped set sk
RECURSIVE SkipLoop(_, _, _)
SkipLoop(q, adj, sk) ==
    IF q = <<>> THEN sk
    ELSE LET current == Head(q)
         IN  IF current \in sk
             THEN SkipLoop(Tail(q), adj, sk)
             ELSE LET sk2 == sk \cup {current}
                      new == SetToSeq({ child \in Adj(adj, current) : child \notin sk2 })
                  IN  SkipLoop(Tail(q) \o new, adj, sk2)

skip_all_descendants(start_id, adj, sk) == SkipLoop(<<start_id>>, adj, sk)

\* for child in adjacency.get(rid, []): skip_all_descendants(child, adjacency, skipped)
RECURSIVE SkipChildren(_, _, _)
SkipChildren(children, adj, sk) ==
    IF children = <<>> THEN sk
    ELSE SkipChildren(Tail(children), adj,
                      skip_all_descendants(Head(children), adj, sk))

-----------------------------------------------------------------------------
(* run_data_validations: what each validation's query observes *)

ValidationCases ==
    { [val_type |-> "NOT NULL", has_params |-> FALSE, has_row |-> TRUE,  value |-> 0, raises |-> FALSE],
      [val_type |-> "NOT NULL", has_params |-> FALSE, has_row |-> TRUE,  value |-> 1, raises |-> FALSE],
      [val_type |-> "RANGE",    has_params |-> TRUE,  has_row |-> TRUE,  value |-> 1, raises |-> FALSE],
      [val_type |-> "RANGE",    has_params |-> FALSE, has_row |-> TRUE,  value |-> 1, raises |-> FALSE],
      [val_type |-> "CUSTOM",   has_params |-> TRUE,  has_row |-> TRUE,  value |-> 1, raises |-> FALSE],
      [val_type |-> "CUSTOM",   has_params |-> TRUE,  has_row |-> TRUE,  value |-> 0, raises |-> FALSE],
      [val_type |-> "CUSTOM",   has_params |-> TRUE,  has_row |-> FALSE, value |-> 0, raises |-> FALSE],
      [val_type |-> "CUSTOM",   has_params |-> TRUE,  has_row |-> TRUE,  value |-> 1, raises |-> TRUE] }

ValidationLists == UNION { [1 .. n -> ValidationCases] : n \in 0 .. MaxValidations }

pass_flag(v) ==
    IF v.raises THEN FALSE
    ELSE IF v.val_type = "NOT NULL" THEN ~(v.value > 0)
    ELSE IF v.val_type = "RANGE" THEN ~(v.has_params /\ v.value > 0)
    ELSE ~(v.has_params /\ v.has_row /\ v.value # 1)

\* overall_pass
run_data_validations(validations) ==
    \A i \in DOMAIN validations : pass_flag(validations[i])

-----------------------------------------------------------------------------
(* run_single_rule_transaction *)

OpTypes == {"INSERT", "UPDATE", "DELETE", "SELECT", "DECISION_TABLE", "OTHER"}

FirstColVals == {0, 1, 2}

\* what the database does with the rule's SQL: the statement that raises, if any,
\* and the first column of each row fetched
SqlOutcomes ==
    { [raises |-> r, rows |-> <<>>] : r \in {"begin", "execute", "fetch"} }
      \cup { [raises |-> "none", rows |-> rs] :
               rs \in UNION { [1 .. n -> FirstColVals] : n \in 0 .. MaxRows } }

\* the exception paths of run_single_rule_transaction
RunnerRaised(o) ==
    [success |-> FALSE, message |-> [kind |-> "exception", value |-> 0], row_count |-> 0,
     stmts |-> IF o.raises = "begin" THEN <<"ROLLBACK">>
               ELSE IF o.raises = "execute" THEN <<"BEGIN TRANSACTION", "ROLLBACK">>
               ELSE <<"BEGIN TRANSACTION", "RULE_SQL", "ROLLBACK">>]

\* faulty variant of run_single_rule_transaction: `is_dry_run` is not consulted
run_single_rule_transaction_CommitOnDryRun(info, is_dry_run, o) ==
    IF info.OPERATION_TYPE = "DECISION_TABLE"
    THEN [success |-> TRUE, message |-> [kind |-> "DecisionTable executed successfully", value |-> 0],
          row_count |-> 1, stmts |-> <<>>]
    ELSE IF o.raises # "none" THEN RunnerRaised(o)
    ELSE LET rows == o.rows
             result == IF rows # <<>> THEN rows[1] ELSE 1
         IN  [success |-> (result = 1),
              message |-> [kind |-> "SQL executed successfully; returned", value |-> result],
              row_count |-> Len(rows),
              stmts |-> <<"BEGIN TRANSACTION", "RULE_SQL">> \o
                        (IF result # 1 THEN <<"ROLLBACK">> ELSE <<"COMMIT">>)]

\* faulty variant of run_single_rule_transaction: no rows is not a pass
run_single_rule_transaction_NoDefaultPass(info, is_dry_run, o) ==
    IF info.OPERATION_TYPE = "DECISION_TABLE"
    THEN [success |-> TRUE, message |-> [kind |-> "DecisionTable executed successfully", value |-> 0],
          row_count |-> 1, stmts |-> <<>>]
    ELSE IF o.raises # "none" THEN RunnerRaised(o)
    ELSE LET rows == o.rows
             result == IF rows # <<>> THEN rows[1] ELSE 0
         IN  [success |-> (result = 1),
              message |-> [kind |-> "SQL executed successfully; returned", value |-> result],
              row_count |-> Len(rows),
              stmts |-> <<"BEGIN TRANSACTION", "RULE_SQL">> \o
                        (IF is_dry_run \/ result # 1 THEN <<"ROLLBACK">> ELSE <<"COMMIT">>)]

run_single_rule_transaction(info, is_dry_run, o) ==
    IF info.OPERATION_TYPE = "DECISION_TABLE"
    THEN [success |-> TRUE, message |-> [kind |-> "DecisionTable executed successfully", value |-> 0],
          row_count |-> 1, stmts |-> <<>>]
    ELSE IF o.raises = "begin"
    THEN [success |-> FALSE, message |-> [kind |-> "exception", value |-> 0],
          row_count |-> 0, stmts |-> <<"ROLLBACK">>]
    ELSE IF o.raises = "execute"
    THEN [success |-> FALSE, message |-> [kind |-> "exception", value |-> 0],
          row_count |-> 0, stmts |-> <<"BEGIN TRANSACTION", "ROLLBACK">>]
    ELSE IF o.raises = "fetch"
    THEN [success |-> FALSE, message |-> [kind |-> "exception", value |-> 0],
          row_count |-> 0, stmts |-> <<"BEGIN TRANSACTION", "RULE_SQL", "ROLLBACK">>]
    ELSE LET rows == o.rows
             row_count == IF rows # <<>> THEN Len(rows) ELSE 0
             result == IF rows # <<>> THEN rows[1] ELSE 1
             success == (result = 1)
         IN  [success |-> success,
              message |-> [kind |-> "SQL executed successfully; returned", value |-> result],
              row_count |-> row_count,
              stmts |-> <<"BEGIN TRANSACTION", "RULE_SQL">> \o
                        (IF is_dry_run \/ ~success THEN <<"ROLLBACK">> ELSE <<"COMMIT">>)]

\* faulty variant of insert_rule_execution_log: nothing is logged in a dry run
insert_rule_execution_log_SkipOnDryRun(logs, rule_id, flag, message, record_count) ==
    IF dry_run THEN logs
    ELSE Append_(logs, [RULE_ID |-> rule_id, PASS_FLAG |-> IF flag THEN 1 ELSE 0,
                        MESSAGE |-> message, RECORD_COUNT |-> record_count])

\* the row insert_rule_execution_log writes
insert_rule_execution_log(logs, rule_id, flag, message, record_count) ==
    Append_(logs, [RULE_ID |-> rule_id, PASS_FLAG |-> IF flag THEN 1 ELSE 0,
                   MESSAGE |-> message, RECORD_COUNT |-> record_count])

-----------------------------------------------------------------------------
(* The database contents a run starts from *)

\* CRITICAL_RULE, IS_GLOBAL, OPERATION_TYPE and STATUS of a row
PlainKind ==
    [CRITICAL_RULE |-> 0, IS_GLOBAL |-> 0, OPERATION_TYPE |-> "SELECT", STATUS |-> "ACTIVE"]

SpecialKinds ==
    { [CRITICAL_RULE |-> 1, IS_GLOBAL |-> 0, OPERATION_TYPE |-> "SELECT", STATUS |-> "ACTIVE"],
      [CRITICAL_RULE |-> 0, IS_GLOBAL |-> 1, OPERATION_TYPE |-> "SELECT", STATUS |-> "ACTIVE"],
      [CRITICAL_RULE |-> 0, IS_GLOBAL |-> 0, OPERATION_TYPE |-> "DECISION_TABLE",
       STATUS |-> "ACTIVE"],
      [CRITICAL_RULE |-> 0, IS_GLOBAL |-> 0, OPERATION_TYPE |-> "SELECT",
       STATUS |-> "INACTIVE"] }

\* a row of BRM_RULES: an ACTIVE row is an approved rule of version 1, an INACTIVE
\* row is as add_rule inserts it (lines 424-431)
RuleRow(rid, pid, kind) ==
    [RULE_ID |-> rid, PARENT_RULE_ID |-> pid, CRITICAL_RULE |-> kind.CRITICAL_RULE,
     IS_GLOBAL |-> kind.IS_GLOBAL, OPERATION_TYPE |-> kind.OPERATION_TYPE,
     STATUS |-> kind.STATUS, VERSION |-> 1,
     APPROVAL_STATUS |-> IF kind.STATUS = "ACTIVE" THEN "APPROVED" ELSE "APPROVAL_IN_PROGRESS",
     LIFECYCLE_STATE |-> IF kind.STATUS = "ACTIVE" THEN "ACTIVE" ELSE "DRAFT",
     OWNER_GROUP |-> "BG1", RULE_NAME |-> "R" \o ToString(rid)]

RowKind(row) ==
    [CRITICAL_RULE |-> row.CRITICAL_RULE, IS_GLOBAL |-> row.IS_GLOBAL,
     OPERATION_TYPE |-> row.OPERATION_TYPE, STATUS |-> row.STATUS]

\* PARENT_RULE_ID is NULL (0) or another rule id, present in the table or not
RuleTables ==
    { t \in UNION { [P -> ((0 .. MaxRule) \X ({PlainKind} \cup SpecialKinds))] :
                      P \in SUBSET RuleIds } :
        /\ \A r \in DOMAIN t : t[r][1] # r
        /\ Cardinality({ r \in DOMAIN t : t[r][2] # PlainKind }) <= MaxSpecial }

TableOf(t) == [ rid \in DOMAIN t |-> RuleRow(rid, t[rid][1], t[rid][2]) ]

ExprSamples ==
    { <<"R", "u", "l", "e", "1">>,
      <<"r", "u", "l", "e", " ", "2", " ", "A", "N", "D", " ", "R", "U", "L", "E", "3">>,
      <<"R", "u", "l", "e", "s", " ", "1", "2">> }

ExtraRows ==
    { <<"link", g, t>> : g \in RuleIds, t \in RuleIds }
      \cup { <<"conflict", a, b>> : a \in RuleIds, b \in RuleIds }
      \cup { <<"composite", c, e>> : c \in RuleIds, e \in ExprSamples }

RECURSIVE SubsetsUpTo(_, _)
SubsetsUpTo(S, k) ==
    IF k = 0 THEN {{}}
    ELSE LET prev == SubsetsUpTo(S, k - 1)
         IN  prev \cup { p \cup {x} : p \in prev, x \in S }

\* distinct rules in a link or conflict row, a < b in a conflict row, and no
\* composite that refers to itself
ExtraConfigs ==
    SubsetsUpTo({ r \in ExtraRows :
                    /\ r[1] = "link" => r[2] # r[3]
                    /\ r[1] = "conflict" => r[2] < r[3]
                    /\ r[1] = "composite" => r[2] \notin Range(findall(r[3])) },
                MaxExtra)

NoInfo == RuleRow(0, 0, PlainKind)
NoResult == [raises |-> "none", rows |-> <<>>]
NoTx == [success |-> FALSE, message |-> [kind |-> "", value |-> 0],
         row_count |-> 0, stmts |-> <<>>]

\* the rows run_single_rule_transaction is called on outside a BFS run
RunnerInfos ==
    { RuleRow(1, 0, [CRITICAL_RULE |-> 0, IS_GLOBAL |-> 0, OPERATION_TYPE |-> op,
                     STATUS |-> "ACTIVE"]) : op \in OpTypes }

\* no caller of the lock, of the pipeline builder or of rule maintenance; `before`
\* keeps the lock rows of the rule that a call of the lock found
NoCall == [fn |-> "", rule_id |-> 0, locked_by |-> "", force |-> FALSE, status |-> "idle",
           exc |-> "none", msg |-> "", before |-> {}]
NoLockers == <<>>
NoBuild == <<>>
NoKey == "(no key)"
NoData == [PARENT_RULE_ID |-> 0, OWNER_GROUP |-> NoKey, RULE_NAME |-> ""]
NoCrud == [op |-> "", rule_id |-> 0, by |-> "", user_group |-> "", force |-> FALSE,
           rule_data |-> NoData, old_data |-> NoInfo, pc |-> "idle", exc |-> "none",
           msg |-> "", calls |-> 0]

NoEditing ==
    /\ RULE_LOCKS = {}
    /\ now = 0
    /\ call = NoCall
    /\ lockers = NoLockers
    /\ BUSINESS_GROUP_APPROVERS = {}
    /\ BRM_RULE_APPROVALS = EmptyBag
    /\ build = NoBuild
    /\ crud = NoCrud

\* a caller about to invoke run_single_rule_transaction on one rule
InitRunner ==
    /\ BRM_RULES = <<>>
    /\ BRM_GLOBAL_CRITICAL_LINKS = {}
    /\ RULE_CONFLICTS = {}
    /\ COMPOSITE_RULES = {}
    /\ RULE_EXECUTION_LOGS = <<>>
    /\ pc = "runner"
    /\ dry_run \in BOOLEAN
    /\ overall_valid = TRUE
    /\ adjacency = <<>>
    /\ roots = <<>>
    /\ parent_map = <<>>
    /\ rule_map = <<>>
    /\ executed = <<>>
    /\ skipped = {}
    /\ queue = <<>>
    /\ rule_info \in RunnerInfos
    /\ db_result = NoResult
    /\ lastTx = NoTx
    /\ NoEditing

\* a caller about to invoke execute_rules_unified_bfs
InitBfs ==
    /\ \E t \in RuleTables : BRM_RULES = TableOf(t)
    /\ \E cfg \in ExtraConfigs :
         /\ BRM_GLOBAL_CRITICAL_LINKS = { <<r[2], r[3]>> : r \in { x \in cfg : x[1] = "link" } }
         /\ RULE_CONFLICTS = { <<r[2], r[3]>> : r \in { x \in cfg : x[1] = "conflict" } }
         /\ COMPOSITE_RULES = { <<r[2], r[3]>> : r \in { x \in cfg : x[1] = "composite" } }
    /\ RULE_EXECUTION_LOGS = <<>>
    /\ pc = "idle"
    /\ dry_run = FALSE
    /\ overall_valid = TRUE
    /\ adjacency = <<>>
    /\ roots = <<>>
    /\ parent_map = <<>>
    /\ rule_map = <<>>
    /\ executed = <<>>
    /\ skipped = {}
    /\ queue = <<>>
    /\ rule_info = NoInfo
    /\ db_result = NoResult
    /\ lastTx = NoTx
    /\ NoEditing

Init == InitBfs \/ InitRunner

\* one call of run_single_rule_transaction(conn, rule_info, is_dry_run)
RunSingle ==
    /\ pc = "runner"
    /\ \E o \in SqlOutcomes :
         /\ db_result' = o
         /\ lastTx' = run_single_rule_transaction(rule_info, dry_run, o)
    /\ pc' = "ran"
    /\ UNCHANGED <<editVars, tableVars, RULE_EXECUTION_LOGS, dry_run, bfsVars, rule_info>>

-----------------------------------------------------------------------------
(* execute_rules_unified_bfs *)

\* roots, a list built by iterating a set, comes in some order of the root set
load_rule_relationships(order) ==
    [adjacency |-> BuildAdjacency(AllEdges(BRM_RULES, BRM_GLOBAL_CRITICAL_LINKS,
                                           RULE_CONFLICTS, COMPOSITE_RULES)),
     roots |-> order,
     parent_map |-> BuildParentMap(BRM_RULES)]

get_all_rules_map == BRM_RULES

\* faulty variant of BfsStart: the result of the validations is not consulted
BfsStart_IgnoreValidation ==
    /\ pc = "idle"
    /\ \E d \in BOOLEAN, validations \in ValidationLists, order \in Perms(RootSet(BRM_RULES)) :
         LET rel == load_rule_relationships(order)
         IN  /\ dry_run' = d
             /\ adjacency' = rel.adjacency
             /\ roots' = rel.roots
             /\ parent_map' = rel.parent_map
             /\ rule_map' = get_all_rules_map
             /\ executed' = <<>>
             /\ skipped' = {}
             /\ overall_valid' = run_data_validations(validations)
             /\ pc' = "running"
             /\ queue' = rel.roots
    /\ UNCHANGED <<editVars, tableVars, RULE_EXECUTION_LOGS, runnerVars>>

\* lines 260-271: load the graph and the registry, run the validations, fill the queue
BfsStart ==
    /\ pc = "idle"
    /\ \E d \in BOOLEAN, validations \in ValidationLists, order \in Perms(RootSet(BRM_RULES)) :
         LET rel == load_rule_relationships(order)
             valid == run_data_validations(validations)
         IN  /\ dry_run' = d
             /\ adjacency' = rel.adjacency
             /\ roots' = rel.roots
             /\ parent_map' = rel.parent_map
             /\ rule_map' = get_all_rules_map
             /\ executed' = <<>>
             /\ skipped' = {}
             /\ overall_valid' = valid
             /\ IF ~valid
                THEN /\ pc' = "aborted"      \* raise ValueError
                     /\ queue' = <<>>
                ELSE /\ pc' = "running"
                     /\ queue' = rel.roots
    /\ UNCHANGED <<editVars, tableVars, RULE_EXECUTION_LOGS, runnerVars>>

\* faulty variant of BfsSkipAlready: the dequeued rule is put back at the end of the queue
BfsSkipAlready_Requeue ==
    /\ pc = "running"
    /\ queue # <<>>
    /\ Head(queue) \in skipped
    /\ queue' = Append(Tail(queue), Head(queue))
    /\ skipped' = skipped \ {Head(queue)}
    /\ UNCHANGED <<editVars, tableVars, RULE_EXECUTION_LOGS, pc, dry_run, overall_valid, adjacency,
                   roots, parent_map, rule_map, executed, runnerVars>>

\* lines 274-275: the dequeued rule is already skipped
BfsSkipAlready ==
    /\ pc = "running"
    /\ queue # <<>>
    /\ Head(queue) \in skipped
    /\ queue' = Tail(queue)
    /\ UNCHANGED <<editVars, tableVars, RULE_EXECUTION_LOGS, pc, dry_run, overall_valid, adjacency,
                   roots, parent_map, rule_map, executed, skipped, runnerVars>>

\* faulty variant of BfsSkipDangling: the rule is passed over without being marked
BfsSkipDangling_NoMark ==
    /\ pc = "running"
    /\ queue # <<>>
    /\ Head(queue) \notin skipped
    /\ Head(queue) \notin DOMAIN rule_map
    /\ queue' = Tail(queue)
    /\ UNCHANGED <<editVars, tableVars, RULE_EXECUTION_LOGS, pc, dry_run, overall_valid, adjacency,
                   roots, parent_map, rule_map, executed, skipped, runnerVars>>

\* lines 276-278: the dequeued rule is not in the registry
BfsSkipDangling ==
    /\ pc = "running"
    /\ queue # <<>>
    /\ Head(queue) \notin skipped
    /\ Head(queue) \notin DOMAIN rule_map
    /\ skipped' = skipped \cup {Head(queue)}
    /\ queue' = Tail(queue)
    /\ UNCHANGED <<editVars, tableVars, RULE_EXECUTION_LOGS, pc, dry_run, overall_valid, adjacency,
                   roots, parent_map, rule_map, executed, runnerVars>>

\* the outcomes of a rule's SQL a BFS run draws from: it passes, it fails, it raises
BfsOutcomes ==
    { [raises |-> "none", rows |-> <<1>>], [raises |-> "none", rows |-> <<0>>],
      [raises |-> "execute", rows |-> <<>>] }

\* faulty variant of FailureCascade: the descendants are skipped for a critical or global
\* rule only
FailureCascade_CriticalOnly(rid, info, adj, sk) ==
    LET is_critical == info.CRITICAL_RULE = 1 \/ info.IS_GLOBAL = 1
        children == SetToSeq(Adj(adj, rid))
    IN  (IF is_critical THEN SkipChildren(children, adj, sk) ELSE sk) \cup {rid}

\* lines 287-296: the skipped set after rule rid has failed
FailureCascade(rid, info, adj, sk) ==
    LET is_critical == info.CRITICAL_RULE = 1 \/ info.IS_GLOBAL = 1
        children == SetToSeq(Adj(adj, rid))
    IN  (IF is_critical
         THEN SkipChildren(children, adj, sk)
         ELSE SkipChildren(children, adj, sk)) \cup {rid}

\* faulty variant of BfsRunRule: an exception of the rule's SQL ends the run
BfsRunRule_AbortOnException ==
    /\ pc = "running"
    /\ queue # <<>>
    /\ Head(queue) \notin skipped
    /\ Head(queue) \in DOMAIN rule_map
    /\ LET rid == Head(queue)
           info == rule_map[rid]
       IN  \E o \in BfsOutcomes :
             LET res == run_single_rule_transaction(info, dry_run, o)
             IN  /\ rule_info' = info
                 /\ db_result' = o
                 /\ lastTx' = res
                 /\ RULE_EXECUTION_LOGS' =
                      insert_rule_execution_log(RULE_EXECUTION_LOGS, rid, res.success,
                                                res.message, res.row_count)
                 /\ IF res.success
                    THEN /\ executed' = Append_(executed, rid)
                         /\ skipped' = skipped
                         /\ pc' = pc
                         /\ \E order \in Perms({ child \in Adj(adjacency, rid) :
                                                   child \notin skipped }) :
                              /\ Len(Tail(queue)) + Len(order) <= MaxQueue
                              /\ queue' = Tail(queue) \o order
                    ELSE /\ executed' = executed
                         /\ skipped' = FailureCascade(rid, info, adjacency, skipped)
                         /\ pc' = IF res.message.kind = "exception" THEN "aborted" ELSE pc
                         /\ queue' = IF res.message.kind = "exception" THEN <<>>
                                     ELSE Tail(queue)
    /\ UNCHANGED <<editVars, tableVars, dry_run, overall_valid, adjacency, roots, parent_map,
                   rule_map>>

\* lines 279-296: run the dequeued rule, log it, enqueue its neighbours or cascade
BfsRunRule ==
    /\ pc = "running"
    /\ queue # <<>>
    /\ Head(queue) \notin skipped
    /\ Head(queue) \in DOMAIN rule_map
    /\ LET rid == Head(queue)
           info == rule_map[rid]
       IN  \E o \in BfsOutcomes :
             LET res == run_single_rule_transaction(info, dry_run, o)
             IN  /\ rule_info' = info
                 /\ db_result' = o
                 /\ lastTx' = res
                 /\ RULE_EXECUTION_LOGS' =
                      insert_rule_execution_log(RULE_EXECUTION_LOGS, rid, res.success,
                                                res.message, res.row_count)
                 /\ IF res.success
                    THEN /\ executed' = Append_(executed, rid)
                         /\ skipped' = skipped
                         /\ \E order \in Perms({ child \in Adj(adjacency, rid) :
                                                   child \notin skipped }) :
                              /\ Len(Tail(queue)) + Len(order) <= MaxQueue
                              /\ queue' = Tail(queue) \o order
                    ELSE /\ executed' = executed
                         /\ skipped' = FailureCascade(rid, info, adjacency, skipped)
                         /\ queue' = Tail(queue)
    /\ UNCHANGED <<editVars, tableVars, pc, dry_run, overall_valid, adjacency, roots, parent_map,
                   rule_map>>

\* line 297: the queue is empty
BfsReturn ==
    /\ pc = "running"
    /\ queue = <<>>
    /\ pc' = "done"
    /\ UNCHANGED <<editVars, tableVars, RULE_EXECUTION_LOGS, dry_run, bfsVars, runnerVars>>

execute_rules_unified_bfs ==
    BfsStart \/ BfsSkipAlready \/ BfsSkipDangling \/ BfsRunRule \/ BfsReturn

Next ==
    BfsStart \/ BfsSkipAlready \/ BfsSkipDangling \/ BfsRunRule \/ BfsReturn \/ RunSingle

Spec == Init /\ [][Next]_vars

\* BFS runs over the tables of plain rows (no critical, global or decision-table
\* row) with no other extra row than conflict pairs
FairInit ==
    /\ InitBfs
    /\ \A r \in DOMAIN BRM_RULES : RowKind(BRM_RULES[r]) = PlainKind
    /\ BRM_GLOBAL_CRITICAL_LINKS = {}
    /\ COMPOSITE_RULES = {}

\* the run is single-threaded and blocks on nothing but its own statements: a step
\* that can be taken is taken
FairSpec ==
    FairInit /\ [][execute_rules_unified_bfs]_vars /\ WF_vars(execute_rules_unified_bfs)

-----------------------------------------------------------------------------
(* Rule lock: lock_rule and unlock_rule of core.py *)

TTL_MINUTES == 30     \* DATEDIFF(MINUTE, LOCK_TIMESTAMP, GETDATE()) > 30

MaxNow == 61          \* the clock runs from 0 to MaxNow minutes
MaxLockRule == 2      \* the rules that are locked are 1..MaxLockRule

Holders == {"A", "B"}
LockRuleIds == 1 .. MaxLockRule

\* the time that passes between two statements: the TTL exactly, or a minute more
TickSteps == {TTL_MINUTES, TTL_MINUTES + 1}

LockRow(rule_id, locked_by, ts) ==
    [RULE_ID |-> rule_id, LOCKED_BY |-> locked_by, LOCK_TIMESTAMP |-> ts]

DateDiffMinute(ts, t) == t - ts

\* faulty variant of ClearOldLocks: nothing expires
ClearOldLocks_Never(locks, t) == locks

\* DELETE FROM RULE_LOCKS WHERE DATEDIFF(MINUTE, LOCK_TIMESTAMP, GETDATE()) > 30
ClearOldLocks(locks, t) ==
    { l \in locks : ~(DateDiffMinute(l.LOCK_TIMESTAMP, t) > TTL_MINUTES) }

\* fetchone() found no row
NoRow == ""

\* SELECT LOCKED_BY FROM RULE_LOCKS WHERE RULE_ID=? ; fetchone(): the values row[0]
\* may take
FetchLockedBy(locks, rule_id) ==
    LET rows == { l.LOCKED_BY : l \in { x \in locks : x.RULE_ID = rule_id } }
    IN  IF rows = {} THEN {NoRow} ELSE rows

\* DELETE FROM RULE_LOCKS WHERE RULE_ID=?
DeleteLocks(locks, rule_id) == { l \in locks : l.RULE_ID # rule_id }

\* INSERT INTO RULE_LOCKS(RULE_ID, LOCKED_BY, LOCK_TIMESTAMP) VALUES(?,?,GETDATE())
InsertLock(locks, rule_id, locked_by, t) == locks \cup {LockRow(rule_id, locked_by, t)}

\* faulty variant of LockConflict: the holder is not compared
LockConflict_Never(current, locked_by, force) == FALSE

\* faulty variant of LockConflict: `force` is not consulted
LockConflict_IgnoreForce(current, locked_by, force) ==
    current # NoRow /\ current # locked_by

\* if row: ... if current_lock != locked_by and not force: raise ValueError
LockConflict(current, locked_by, force) ==
    current # NoRow /\ current # locked_by /\ ~force

\* the results of one uninterrupted call lock_rule(conn, rule_id, locked_by, force) at
\* time t: the exception raised, if any, and the lock table it leaves
lock_rule(locks, t, rule_id, locked_by, force) ==
    LET cleared == ClearOldLocks(locks, t)
    IN  { IF LockConflict(current, locked_by, force)
          THEN [exc |-> "ValueError", msg |-> "is already locked by", locks |-> cleared]
          ELSE [exc |-> "none", msg |-> "",
                locks |-> InsertLock(IF current # NoRow THEN DeleteLocks(cleared, rule_id)
                                     ELSE cleared,
                                     rule_id, locked_by, t)] :
          current \in FetchLockedBy(cleared, rule_id) }

\* faulty variant of unlock_rule: the holder of the lock is not compared
unlock_rule_NoHolderCheck(locks, rule_id, locked_by, force) ==
    { [exc |-> "none", msg |-> "", locks |-> DeleteLocks(locks, rule_id)] }

\* the results of one uninterrupted call unlock_rule(conn, rule_id, locked_by, force)
unlock_rule(locks, rule_id, locked_by, force) ==
    { IF LockConflict(current, locked_by, force)
      THEN [exc |-> "ValueError", msg |-> "Cannot unlock rule; it is locked by",
            locks |-> locks]
      ELSE [exc |-> "none", msg |-> "", locks |-> DeleteLocks(locks, rule_id)] :
      current \in FetchLockedBy(locks, rule_id) }

\* no BFS run and no runner call
NoRun ==
    /\ RULE_EXECUTION_LOGS = <<>>
    /\ pc = "off"
    /\ dry_run = FALSE
    /\ overall_valid = TRUE
    /\ adjacency = <<>>
    /\ roots = <<>>
    /\ parent_map = <<>>
    /\ rule_map = <<>>
    /\ executed = <<>>
    /\ skipped = {}
    /\ queue = <<>>
    /\ rule_info = NoInfo
    /\ db_result = NoResult
    /\ lastTx = NoTx

NoTables ==
    /\ BRM_RULES = <<>>
    /\ BRM_GLOBAL_CRITICAL_LINKS = {}
    /\ RULE_CONFLICTS = {}
    /\ COMPOSITE_RULES = {}

\* time passes
Tick ==
    /\ \E d \in TickSteps : now + d <= MaxNow /\ now' = now + d
    /\ UNCHANGED <<tableVars, runVars, RULE_LOCKS, call, lockers, approvalVars, crud>>

\* the calls a client of the lock makes
ApiCalls ==
    { [fn |-> f, rule_id |-> r, locked_by |-> h, force |-> fo, status |-> "pending",
       exc |-> "none", msg |-> "", before |-> {}] :
        f \in {"lock_rule", "unlock_rule"}, r \in LockRuleIds, h \in Holders,
        fo \in BOOLEAN }

\* clients that call lock_rule and unlock_rule one call after the other
InitLock ==
    /\ NoTables
    /\ NoRun
    /\ RULE_LOCKS = {}
    /\ now = 0
    /\ call = NoCall
    /\ lockers = NoLockers
    /\ BUSINESS_GROUP_APPROVERS = {}
    /\ BRM_RULE_APPROVALS = EmptyBag
    /\ build = NoBuild
    /\ crud = NoCrud

LockApiChoose ==
    /\ call.status # "pending"
    /\ call' \in ApiCalls
    /\ UNCHANGED <<tableVars, runVars, RULE_LOCKS, now, lockers, approvalVars, crud>>

LockRuleCall ==
    /\ call.status = "pending"
    /\ call.fn = "lock_rule"
    /\ \E res \in lock_rule(RULE_LOCKS, now, call.rule_id, call.locked_by, call.force) :
         /\ RULE_LOCKS' = res.locks
         /\ call' = [call EXCEPT !.status = IF res.exc = "none" THEN "returned" ELSE "raised",
                                 !.exc = res.exc, !.msg = res.msg,
                                 !.before = { l \in RULE_LOCKS : l.RULE_ID = call.rule_id }]
    /\ UNCHANGED <<tableVars, runVars, now, lockers, approvalVars, crud>>

UnlockRuleCall ==
    /\ call.status = "pending"
    /\ call.fn = "unlock_rule"
    /\ \E res \in unlock_rule(RULE_LOCKS, call.rule_id, call.locked_by, call.force) :
         /\ RULE_LOCKS' = res.locks
         /\ call' = [call EXCEPT !.status = IF res.exc = "none" THEN "returned" ELSE "raised",
                                 !.exc = res.exc, !.msg = res.msg,
                                 !.before = { l \in RULE_LOCKS : l.RULE_ID = call.rule_id }]
    /\ UNCHANGED <<tableVars, runVars, now, lockers, approvalVars, crud>>

NextLock == Tick \/ LockApiChoose \/ LockRuleCall \/ UnlockRuleCall

SpecLock == InitLock /\ [][NextLock]_vars

-----------------------------------------------------------------------------
(* Two callers inside lock_rule at the same time, statement by statement *)

IdleLocker == [pc |-> "idle", rule_id |-> 0, force |-> FALSE, current |-> NoRow]

InitLockSteps ==
    /\ NoTables
    /\ NoRun
    /\ RULE_LOCKS = {}
    /\ now = 0
    /\ call = NoCall
    /\ lockers = [h \in Holders |-> IdleLocker]
    /\ BUSINESS_GROUP_APPROVERS = {}
    /\ BRM_RULE_APPROVALS = EmptyBag
    /\ build = NoBuild
    /\ crud = NoCrud

\* lines 198-204: the call is made and the expired locks are deleted and committed
LockClear(h) ==
    /\ lockers[h].pc = "idle"
    /\ \E r \in LockRuleIds, fo \in BOOLEAN :
         lockers' = [lockers EXCEPT ![h] =
                       [pc |-> "cleared", rule_id |-> r, force |-> fo, current |-> NoRow]]
    /\ RULE_LOCKS' = ClearOldLocks(RULE_LOCKS, now)
    /\ UNCHANGED <<tableVars, runVars, now, call, approvalVars, crud>>

\* lines 206-207: SELECT and fetchone
LockSelect(h) ==
    /\ lockers[h].pc = "cleared"
    /\ \E current \in FetchLockedBy(RULE_LOCKS, lockers[h].rule_id) :
         lockers' = [lockers EXCEPT ![h].pc = "selected", ![h].current = current]
    /\ UNCHANGED <<tableVars, runVars, RULE_LOCKS, now, call, approvalVars, crud>>

\* lines 208-213: raise on a conflict, else delete the rule's lock rows if one was found
LockDelete(h) ==
    /\ lockers[h].pc = "selected"
    /\ IF LockConflict(lockers[h].current, h, lockers[h].force)
       THEN /\ lockers' = [lockers EXCEPT ![h].pc = "raised"]
            /\ RULE_LOCKS' = RULE_LOCKS
       ELSE /\ lockers' = [lockers EXCEPT ![h].pc = "checked"]
            /\ RULE_LOCKS' = IF lockers[h].current # NoRow
                              THEN DeleteLocks(RULE_LOCKS, lockers[h].rule_id)
                              ELSE RULE_LOCKS
    /\ UNCHANGED <<tableVars, runVars, now, call, approvalVars, crud>>

\* lines 214-217: INSERT and commit; the call returns
LockInsert(h) ==
    /\ lockers[h].pc = "checked"
    /\ RULE_LOCKS' = InsertLock(RULE_LOCKS, lockers[h].rule_id, h, now)
    /\ lockers' = [lockers EXCEPT ![h].pc = "returned"]
    /\ UNCHANGED <<tableVars, runVars, now, call, approvalVars, crud>>

NextLockSteps ==
    \/ Tick
    \/ \E h \in Holders : LockClear(h)
    \/ \E h \in Holders : LockSelect(h)
    \/ \E h \in Holders : LockDelete(h)
    \/ \E h \in Holders : LockInsert(h)

SpecLockSteps == InitLockSteps /\ [][NextLockSteps]_vars

-----------------------------------------------------------------------------
(* Approval pipeline: unified_get_related_rules, find_impacted_business_groups *)
(* and create_multistep_approvals                                            *)

MaxBuilds == 2        \* calls of create_multistep_approvals in a row

\* the while loop of unified_get_related_rules over the deque q: the rules in the
\* order in which they are added to `visited`
RECURSIVE RelatedLoop(_, _, _)
RelatedLoop(q, adj, visited) ==
    IF q = <<>> THEN <<>>
    ELSE LET current == Head(q)
         IN  IF current \in visited
             THEN RelatedLoop(Tail(q), adj, visited)
             ELSE LET v2 == visited \cup {current}
                      new == SetToSeq({ n \in Adj(adj, current) : n \notin v2 })
                  IN  <<current>> \o RelatedLoop(Tail(q) \o new, adj, v2)

\* the set `visited` it returns
unified_get_related_rules(start_rule_id) ==
    Range(RelatedLoop(<<start_rule_id>>,
                      BuildAdjacency(AllEdges(BRM_RULES, BRM_GLOBAL_CRITICAL_LINKS,
                                              RULE_CONFLICTS, COMPOSITE_RULES)),
                      {}))

\* an OWNER_GROUP that is NULL
NullGroup == "(NULL)"

\* faulty variant of find_impacted_business_groups: only the rule's own row is read
find_impacted_business_groups_OwnOnly(rule_id) ==
    { BRM_RULES[rid].OWNER_GROUP :
        rid \in { r \in {rule_id} :
                    r \in DOMAIN BRM_RULES /\ BRM_RULES[r].OWNER_GROUP \notin {NullGroup, ""} } }

\* `if row and row[0]`: a row is found and its OWNER_GROUP is neither NULL nor ''
find_impacted_business_groups(rule_id) ==
    { BRM_RULES[rid].OWNER_GROUP :
        rid \in { r \in unified_get_related_rules(rule_id) :
                    r \in DOMAIN BRM_RULES /\ BRM_RULES[r].OWNER_GROUP \notin {NullGroup, ""} } }

\* the impacted groups the second loop appends, in the order the set yields them
OtherGroups(rule_id) == find_impacted_business_groups(rule_id) \ {"BG1", "BG2", "BG3"}

\* lines 344-353
Pipeline(impacted_groups, others) ==
    <<"BG1">> \o (IF "BG2" \in impacted_groups THEN <<"BG2">> ELSE <<>>)
             \o (IF "BG3" \in impacted_groups THEN <<"BG3">> ELSE <<>>)
             \o others \o <<"FINAL">>

ApprovalRow(rule_id, grp, user, stage) ==
    [RULE_ID |-> rule_id, GROUP_NAME |-> grp, USERNAME |-> user, APPROVED_FLAG |-> 0,
     APPROVAL_STAGE |-> stage, APPROVED_TIMESTAMP |-> "NULL"]

\* f"{grp}_default"
DefaultApprover(grp) == grp \o "_default"

\* SELECT USERNAME FROM BUSINESS_GROUP_APPROVERS WHERE GROUP_NAME=?
Approvers(grp) == { a[2] : a \in { x \in BUSINESS_GROUP_APPROVERS : x[1] = grp } }

\* faulty variant of StageRows: the default approver is inserted for every stage
StageRows_DefaultToo(rule_id, grp, stage) ==
    SetToBag({ApprovalRow(rule_id, grp, DefaultApprover(grp), stage)}
             \cup { ApprovalRow(rule_id, grp, apuser, stage) : apuser \in Approvers(grp) })

\* lines 359-378: the rows inserted for one stage
StageRows(rule_id, grp, stage) ==
    IF Approvers(grp) = {}
    THEN SetToBag({ApprovalRow(rule_id, grp, DefaultApprover(grp), stage)})
    ELSE SetToBag({ ApprovalRow(rule_id, grp, apuser, stage) : apuser \in Approvers(grp) })

\* lines 357-379: the loop over the pipeline
RECURSIVE InsertStages(_, _, _, _)
InsertStages(approvals, rule_id, pipeline, stage) ==
    IF pipeline = <<>> THEN approvals
    ELSE InsertStages(approvals (+) StageRows(rule_id, Head(pipeline), stage),
                      rule_id, Tail(pipeline), stage + 1)

\* faulty variant of DeleteApprovals: the DELETE has no WHERE clause
DeleteApprovals_All(approvals, rule_id) == EmptyBag

\* DELETE FROM BRM_RULE_APPROVALS WHERE RULE_ID=?
DeleteApprovals(approvals, rule_id) ==
    [ row \in { x \in DOMAIN approvals : x.RULE_ID # rule_id } |-> approvals[row] ]

\* faulty variant of create_multistep_approvals: the rule's rows are not deleted first
create_multistep_approvals_NoDelete(approvals, rule_id, others) ==
    InsertStages(approvals, rule_id,
                 Pipeline(find_impacted_business_groups(rule_id), others), 1)

\* the approvals table after create_multistep_approvals(conn, rule_id, initiated_by),
\* `others` being the order in which the set yields the remaining impacted groups
create_multistep_approvals(approvals, rule_id, others) ==
    InsertStages(DeleteApprovals(approvals, rule_id), rule_id,
                 Pipeline(find_impacted_business_groups(rule_id), others), 1)

OwnerGroups == {NullGroup, "", "BG1", "BG2", "BG3", "BG4", "BG5", "FINAL"}

\* rule tables of plain rows
PlainTables == { t \in RuleTables : \A r \in DOMAIN t : t[r][2] = PlainKind }

\* those in which a parent has a lower id than its child
ForestTables == { t \in PlainTables : \A r \in DOMAIN t : t[r][1] < r }

WithOwners(rules, owner) ==
    [ r \in DOMAIN rules |-> [rules[r] EXCEPT !.OWNER_GROUP = owner[r]] ]

\* one owner group per rule, all different
DefaultOwner(r) ==
    CASE r = 1 -> "BG2" [] r = 2 -> "BG4" [] r = 3 -> "BG5" [] OTHER -> "BG3"

\* nobody is configured; or two approvers for BG1, one for BG2 and for FINAL
ApproverConfigs ==
    { {},
      {<<"BG1", "alice">>, <<"BG1", "bob">>, <<"BG2", "carol">>, <<"FINAL", "dave">>} }

\* an approved row of every rule, left by an earlier pipeline
OldApprovals ==
    SetToBag({ [RULE_ID |-> r, GROUP_NAME |-> "BG1", USERNAME |-> "alice",
                APPROVED_FLAG |-> 1, APPROVAL_STAGE |-> 1,
                APPROVED_TIMESTAMP |-> "2024-01-01"] : r \in RuleIds })

\* callers of create_multistep_approvals: over parent forests with any owner groups,
\* or over any graph with the rules owned by different groups
InitApprovals ==
    /\ \/ /\ \E t \in ForestTables : \E owner \in [DOMAIN t -> OwnerGroups] :
                 BRM_RULES = WithOwners(TableOf(t), owner)
          /\ BRM_GLOBAL_CRITICAL_LINKS = {}
          /\ RULE_CONFLICTS = {}
          /\ COMPOSITE_RULES = {}
       \/ /\ \E t \in PlainTables :
                 BRM_RULES = WithOwners(TableOf(t), [r \in DOMAIN t |-> DefaultOwner(r)])
          /\ \E cfg \in ExtraConfigs :
               /\ BRM_GLOBAL_CRITICAL_LINKS =
                    { <<r[2], r[3]>> : r \in { x \in cfg : x[1] = "link" } }
               /\ RULE_CONFLICTS =
                    { <<r[2], r[3]>> : r \in { x \in cfg : x[1] = "conflict" } }
               /\ COMPOSITE_RULES =
                    { <<r[2], r[3]>> : r \in { x \in cfg : x[1] = "composite" } }
    /\ NoRun
    /\ RULE_LOCKS = {}
    /\ now = 0
    /\ call = NoCall
    /\ lockers = NoLockers
    /\ BUSINESS_GROUP_APPROVERS \in ApproverConfigs
    /\ BRM_RULE_APPROVALS \in {EmptyBag, OldApprovals}
    /\ build = <<>>
    /\ crud = NoCrud

\* one call create_multistep_approvals(conn, rule_id, initiated_by)
BuildPipeline ==
    /\ Len(build) < MaxBuilds
    /\ \E rule_id \in RuleIds : \E others \in Perms(OtherGroups(rule_id)) :
         /\ BRM_RULE_APPROVALS' =
              create_multistep_approvals(BRM_RULE_APPROVALS, rule_id, others)
         /\ build' = Append(build, rule_id)
    /\ UNCHANGED <<tableVars, runVars, lockVars, BUSINESS_GROUP_APPROVERS, crud>>

SpecApprovals == InitApprovals /\ [][BuildPipeline]_vars

-----------------------------------------------------------------------------
(* Rule edits: update_rule, deactivate_rule and delete_rule, one caller, step by *)
(* step: lock_rule, the statements on BRM_RULES up to the commit,                *)
(* create_multistep_approvals, unlock_rule                                       *)

MaxCalls == 2         \* calls of the three functions in a row

\* rule_data.get(key, default)
Get(rule_data, key, default) ==
    IF rule_data[key] = NoKey THEN default ELSE rule_data[key]

\* the rule_data of update_rule: a PARENT_RULE_ID (0 is NULL or no such key), an
\* OWNER_GROUP or no such key, and the name the rule has
RuleDatas(rid) ==
    [PARENT_RULE_ID : {0} \cup (LockRuleIds \ {rid}), OWNER_GROUP : {NoKey, "BG5"},
     RULE_NAME : {"R" \o ToString(rid)}]

\* the rule_data of add_rule: the name of rule 1 or a new name
AddDatas ==
    [PARENT_RULE_ID : {0, 1}, OWNER_GROUP : {"BG2", "BG5"}, RULE_NAME : {"R1", "R9"}]

\* INSERT INTO BRM_RULES ... of add_rule (lines 415-450)
AddedRow(new_id, rule_data) ==
    [RuleRow(new_id, rule_data.PARENT_RULE_ID, PlainKind) EXCEPT
        !.STATUS = "INACTIVE", !.VERSION = 1, !.APPROVAL_STATUS = "APPROVAL_IN_PROGRESS",
        !.LIFECYCLE_STATE = "DRAFT", !.OWNER_GROUP = rule_data.OWNER_GROUP,
        !.RULE_NAME = rule_data.RULE_NAME]

InsertRow(rules, row) ==
    [ r \in DOMAIN rules \cup {row.RULE_ID} |->
        IF r = row.RULE_ID THEN row ELSE rules[r] ]

\* the outcomes of insert_audit_log: it commits, or logs the failure and re-raises
AuditOutcomes == {"ok", "raise"}

\* faulty variant of UpdatedRow: the version is left as it is
UpdatedRow_SameVersion(old_data, rule_data) ==
    [old_data EXCEPT !.PARENT_RULE_ID = rule_data.PARENT_RULE_ID,
                     !.STATUS = "INACTIVE",
                     !.APPROVAL_STATUS = "APPROVAL_IN_PROGRESS",
                     !.LIFECYCLE_STATE = "UNDER_APPROVAL"]

\* UPDATE BRM_RULES SET ... of update_rule (lines 506-538)
UpdatedRow(old_data, rule_data) ==
    [old_data EXCEPT !.PARENT_RULE_ID = rule_data.PARENT_RULE_ID,
                     !.RULE_NAME = rule_data.RULE_NAME,
                     !.STATUS = "INACTIVE",
                     !.VERSION = old_data.VERSION + 1,
                     !.OWNER_GROUP = Get(rule_data, "OWNER_GROUP", old_data.OWNER_GROUP),
                     !.APPROVAL_STATUS = "APPROVAL_IN_PROGRESS",
                     !.LIFECYCLE_STATE = "UNDER_APPROVAL"]

\* faulty variant of DeactivatedRow: the version is left as it is
DeactivatedRow_SameVersion(old_data) ==
    [old_data EXCEPT !.STATUS = "INACTIVE", !.LIFECYCLE_STATE = "INACTIVE"]

\* UPDATE BRM_RULES SET ... of deactivate_rule (lines 577-581)
DeactivatedRow(old_data) ==
    [old_data EXCEPT !.STATUS = "INACTIVE", !.VERSION = old_data.VERSION + 1,
                     !.LIFECYCLE_STATE = "INACTIVE"]

\* DELETE FROM BRM_RULES WHERE RULE_ID=?
DeleteRow(rules, rid) == [ r \in DOMAIN rules \ {rid} |-> rules[r] ]

\* faulty variant of DeactivateGuard: active child rules are not looked for
DeactivateGuard_NoChildCheck(rules, rid, force) ==
    IF rid \notin DOMAIN rules THEN "Rule not found for deactivation."
    ELSE IF rules[rid].APPROVAL_STATUS # "APPROVED" /\ ~force
    THEN "Rule is not fully approved; cannot deactivate."
    ELSE ""

\* the ValueError deactivate_rule raises before its UPDATE, "" if none
DeactivateGuard(rules, rid, force) ==
    IF rid \notin DOMAIN rules THEN "Rule not found for deactivation."
    ELSE IF rules[rid].APPROVAL_STATUS # "APPROVED" /\ ~force
    THEN "Rule is not fully approved; cannot deactivate."
    ELSE IF (\E ch \in DOMAIN rules :
               rules[ch].PARENT_RULE_ID = rid /\ rules[ch].STATUS = "ACTIVE") /\ ~force
    THEN "Active child rules exist; deactivate them first or use force."
    ELSE ""

\* faulty variant of DeleteGuard: child rules are not looked for
DeleteGuard_NoChildCheck(rules, rid, user_group, force) ==
    IF rid \notin DOMAIN rules THEN "Rule not found for deletion."
    ELSE IF rules[rid].IS_GLOBAL = 1 /\ user_group # "Admin"
    THEN "Only Admin can delete a global rule."
    ELSE IF rules[rid].APPROVAL_STATUS # "APPROVED" /\ ~force
    THEN "Rule is not fully approved; cannot delete."
    ELSE IF rules[rid].STATUS # "INACTIVE" /\ ~force
    THEN "Rule must be deactivated before deletion."
    ELSE ""

\* the ValueError delete_rule raises before its DELETE, "" if none
DeleteGuard(rules, rid, user_group, force) ==
    IF rid \notin DOMAIN rules THEN "Rule not found for deletion."
    ELSE IF rules[rid].IS_GLOBAL = 1 /\ user_group # "Admin"
    THEN "Only Admin can delete a global rule."
    ELSE IF rules[rid].APPROVAL_STATUS # "APPROVED" /\ ~force
    THEN "Rule is not fully approved; cannot delete."
    ELSE IF rules[rid].STATUS # "INACTIVE" /\ ~force
    THEN "Rule must be deactivated before deletion."
    ELSE IF \E ch \in DOMAIN rules : rules[ch].PARENT_RULE_ID = rid
    THEN "Child rules exist; cannot delete this rule."
    ELSE ""

CrudRow(rid, pid, status, approval, is_global, owner) ==
    [RuleRow(rid, pid, PlainKind) EXCEPT
        !.STATUS = status, !.APPROVAL_STATUS = approval, !.IS_GLOBAL = is_global,
        !.LIFECYCLE_STATE = IF status = "ACTIVE" THEN "ACTIVE"
                            ELSE IF approval = "APPROVED" THEN "INACTIVE"
                            ELSE "UNDER_APPROVAL",
        !.OWNER_GROUP = owner]

\* rule 1: active, deactivated, under approval, or global and deactivated
CrudRows1 ==
    { CrudRow(1, 0, "ACTIVE", "APPROVED", 0, "BG2"),
      CrudRow(1, 0, "INACTIVE", "APPROVED", 0, "BG2"),
      CrudRow(1, 0, "INACTIVE", "APPROVAL_IN_PROGRESS", 0, "BG2"),
      CrudRow(1, 0, "INACTIVE", "APPROVED", 1, "BG2") }

\* rule 2: a child of rule 1, active or deactivated
CrudRows2 ==
    { CrudRow(2, 1, "ACTIVE", "APPROVED", 0, "BG4"),
      CrudRow(2, 1, "INACTIVE", "APPROVED", 0, "BG4") }

\* the tables with rule 1 or not, and rule 2 or not
CrudTables ==
    { [ r \in { x.RULE_ID : x \in rows } |-> CHOOSE x \in rows : x.RULE_ID = r ] :
        rows \in { r1 \cup r2 : r1 \in {{}} \cup { {x} : x \in CrudRows1 },
                                r2 \in {{}} \cup { {x} : x \in CrudRows2 } } }

\* rule 1 is not locked, or holder "B" has locked it a minute ago or TTL_MINUTES + 1 ago
CrudLocks ==
    { {} } \cup { {LockRow(1, "B", ts)} : ts \in {0, TTL_MINUTES} }

InitCrud ==
    /\ BRM_RULES \in CrudTables
    /\ BRM_GLOBAL_CRITICAL_LINKS = {}
    /\ RULE_CONFLICTS = {}
    /\ COMPOSITE_RULES = {}
    /\ NoRun
    /\ RULE_LOCKS \in CrudLocks
    /\ now = TTL_MINUTES + 1
    /\ call = NoCall
    /\ lockers = NoLockers
    /\ BUSINESS_GROUP_APPROVERS =
         {<<"BG1", "alice">>, <<"BG1", "bob">>, <<"BG2", "carol">>, <<"FINAL", "dave">>}
    /\ BRM_RULE_APPROVALS = OldApprovals
    /\ build = NoBuild
    /\ crud = NoCrud

\* a caller enters add_rule(conn, rule_data, created_by, user_group),
\* update_rule(conn, rule_data, updated_by, user_group),
\* deactivate_rule(conn, rule_id, updated_by, user_group, force) or
\* delete_rule(conn, rule_id, action_by, user_group, force)
CrudCall ==
    /\ crud.pc \in {"idle", "returned", "raised"}
    /\ crud.calls < MaxCalls
    /\ \/ \E rule_data \in AddDatas :
            crud' = [NoCrud EXCEPT !.op = "add_rule", !.by = "A", !.user_group = "BG1",
                                   !.rule_data = rule_data, !.pc = "call",
                                   !.calls = crud.calls + 1]
       \/ \E op \in {"update_rule", "deactivate_rule", "delete_rule"} :
          \E rid \in LockRuleIds : \E by \in Holders :
          \E user_group \in IF op = "delete_rule" THEN {"Admin", "BG1"} ELSE {"BG1"} :
          \E force \in IF op = "update_rule" THEN {FALSE} ELSE BOOLEAN :
          \E rule_data \in IF op = "update_rule" THEN RuleDatas(rid) ELSE {NoData} :
            crud' = [NoCrud EXCEPT !.op = op, !.rule_id = rid, !.by = by,
                                   !.user_group = user_group, !.force = force,
                                   !.rule_data = rule_data, !.pc = "call",
                                   !.calls = crud.calls + 1]
    /\ UNCHANGED <<tableVars, runVars, lockVars, approvalVars>>

\* add_rule, lines 393-472: the name is looked up, the row is inserted under an
\* identity value (an id no row has), and insert_audit_log commits it or raises,
\* which leaves the INSERT uncommitted on the connection
AddRuleBody ==
    /\ crud.pc = "call"
    /\ crud.op = "add_rule"
    /\ IF \E r \in DOMAIN BRM_RULES :
            /\ BRM_RULES[r].OWNER_GROUP = crud.rule_data.OWNER_GROUP
            /\ BRM_RULES[r].RULE_NAME = crud.rule_data.RULE_NAME
       THEN /\ crud' = [crud EXCEPT !.pc = "raised", !.exc = "ValueError",
                           !.msg = "A rule with that name already exists in the specified group."]
            /\ UNCHANGED BRM_RULES
       ELSE \E new_id \in RuleIds \ DOMAIN BRM_RULES :
              LET after == InsertRow(BRM_RULES, AddedRow(new_id, crud.rule_data))
              IN  \/ /\ BRM_RULES' = after
                     /\ crud' = [crud EXCEPT !.pc = "mutated", !.rule_id = new_id]
                  \/ /\ BRM_RULES' \in {BRM_RULES, after}
                     /\ crud' = [crud EXCEPT !.pc = "raised", !.rule_id = new_id,
                                             !.exc = "Exception",
                                             !.msg = "Failed to insert audit log"]
    /\ UNCHANGED <<BRM_GLOBAL_CRITICAL_LINKS, RULE_CONFLICTS, COMPOSITE_RULES, runVars,
                   lockVars, approvalVars>>

\* the first statement of the three functions: lock_rule(conn, rid, by[, force=force])
CrudLock ==
    /\ crud.pc = "call"
    /\ crud.op # "add_rule"
    /\ \E res \in lock_rule(RULE_LOCKS, now, crud.rule_id, crud.by, crud.force) :
         /\ RULE_LOCKS' = res.locks
         /\ crud' = [crud EXCEPT !.pc = IF res.exc = "none" THEN "locked" ELSE "raised",
                                 !.exc = res.exc, !.msg = res.msg]
    /\ UNCHANGED <<tableVars, runVars, now, call, lockers, approvalVars>>

\* update_rule, lines 486-554: the row is read, the UPDATE is executed, and
\* insert_audit_log commits it or raises into the finally clause
UpdateRuleBody ==
    /\ crud.op = "update_rule"
    /\ IF crud.rule_id \notin DOMAIN BRM_RULES
       THEN /\ crud' = [crud EXCEPT !.pc = "raised", !.exc = "ValueError",
                                    !.msg = "Rule not found for update."]
            /\ UNCHANGED BRM_RULES
       ELSE \E audit \in AuditOutcomes :
              /\ BRM_RULES' = [BRM_RULES EXCEPT ![crud.rule_id] =
                                  UpdatedRow(BRM_RULES[crud.rule_id], crud.rule_data)]
              /\ crud' = [crud EXCEPT !.pc = IF audit = "ok" THEN "mutated" ELSE "failed",
                                      !.old_data = BRM_RULES[crud.rule_id],
                                      !.exc = IF audit = "ok" THEN "none" ELSE "Exception",
                                      !.msg = IF audit = "ok" THEN ""
                                              ELSE "Failed to insert audit log"]

\* deactivate_rule, lines 566-587: when insert_audit_log raises the UPDATE is left
\* uncommitted on the connection, for its owner to commit or to roll back
DeactivateRuleBody ==
    /\ crud.op = "deactivate_rule"
    /\ LET guard == DeactivateGuard(BRM_RULES, crud.rule_id, crud.force)
           after == [BRM_RULES EXCEPT ![crud.rule_id] =
                        DeactivatedRow(BRM_RULES[crud.rule_id])]
       IN  IF guard # ""
           THEN /\ crud' = [crud EXCEPT !.pc = "raised", !.exc = "ValueError", !.msg = guard]
                /\ UNCHANGED BRM_RULES
           ELSE \/ /\ BRM_RULES' = after
                   /\ crud' = [crud EXCEPT !.pc = "mutated",
                                           !.old_data = BRM_RULES[crud.rule_id]]
                \/ /\ BRM_RULES' \in {BRM_RULES, after}
                   /\ crud' = [crud EXCEPT !.pc = "raised",
                                           !.old_data = BRM_RULES[crud.rule_id],
                                           !.exc = "Exception",
                                           !.msg = "Failed to insert audit log"]

\* delete_rule, lines 597-615, with the same two outcomes of insert_audit_log
DeleteRuleBody ==
    /\ crud.op = "delete_rule"
    /\ LET guard == DeleteGuard(BRM_RULES, crud.rule_id, crud.user_group, crud.force)
           after == DeleteRow(BRM_RULES, crud.rule_id)
       IN  IF guard # ""
           THEN /\ crud' = [crud EXCEPT !.pc = "raised", !.exc = "ValueError", !.msg = guard]
                /\ UNCHANGED BRM_RULES
           ELSE \/ /\ BRM_RULES' = after
                   /\ crud' = [crud EXCEPT !.pc = "mutated",
                                           !.old_data = BRM_RULES[crud.rule_id]]
                \/ /\ BRM_RULES' \in {BRM_RULES, after}
                   /\ crud' = [crud EXCEPT !.pc = "raised",
                                           !.old_data = BRM_RULES[crud.rule_id],
                                           !.exc = "Exception",
                                           !.msg = "Failed to insert audit log"]

CrudMutate ==
    /\ crud.pc = "locked"
    /\ \/ UpdateRuleBody
       \/ DeactivateRuleBody
       \/ DeleteRuleBody
    /\ UNCHANGED <<BRM_GLOBAL_CRITICAL_LINKS, RULE_CONFLICTS, COMPOSITE_RULES, runVars,
                   lockVars, approvalVars>>

\* update_rule, line 555: create_multistep_approvals(conn, rid, updated_by);
\* add_rule, lines 473-475: create_multistep_approvals(conn, new_id, created_by) and
\* the return
CrudRebuild ==
    /\ crud.pc = "mutated"
    /\ crud.op \in {"update_rule", "add_rule"}
    /\ \E others \in Perms(OtherGroups(crud.rule_id)) :
         BRM_RULE_APPROVALS' =
            create_multistep_approvals(BRM_RULE_APPROVALS, crud.rule_id, others)
    /\ crud' = [crud EXCEPT !.pc = IF crud.op = "add_rule" THEN "returned" ELSE "rebuilt"]
    /\ UNCHANGED <<tableVars, runVars, lockVars, BUSINESS_GROUP_APPROVERS, build>>

\* unlock_rule: the last statement of deactivate_rule and delete_rule, and the
\* finally clause of update_rule, which runs after an exception too
CrudUnlock ==
    /\ \/ crud.pc = "mutated" /\ crud.op \in {"deactivate_rule", "delete_rule"}
       \/ crud.pc \in {"rebuilt", "failed"}
    /\ \E res \in unlock_rule(RULE_LOCKS, crud.rule_id, crud.by, crud.force) :
         /\ RULE_LOCKS' = res.locks
         /\ crud' = [crud EXCEPT !.pc = IF crud.pc = "failed" \/ res.exc # "none"
                                        THEN "raised" ELSE "returned",
                                 !.exc = IF crud.pc = "failed" THEN crud.exc ELSE res.exc,
                                 !.msg = IF crud.pc = "failed" THEN crud.msg ELSE res.msg]
    /\ UNCHANGED <<tableVars, runVars, now, call, lockers, approvalVars>>

NextCrud ==
    CrudCall \/ AddRuleBody \/ CrudLock \/ CrudMutate \/ CrudRebuild \/ CrudUnlock

SpecCrud == InitCrud /\ [][NextCrud]_vars

-----------------------------------------------------------------------------
(* Two callers inside update_rule at the same time, each on a connection of its  *)
(* own, while the clock runs: lock_rule, the statements up to the commit,        *)
(* create_multistep_approvals, unlock_rule                                       *)

MaxEdits == 1         \* calls of update_rule each of the two callers makes

IdleEditor == [pc |-> "idle", rule_id |-> 0, rule_data |-> NoData, exc |-> "none", calls |-> 0]

InitEditors ==
    /\ BRM_RULES \in CrudTables
    /\ BRM_GLOBAL_CRITICAL_LINKS = {}
    /\ RULE_CONFLICTS = {}
    /\ COMPOSITE_RULES = {}
    /\ NoRun
    /\ RULE_LOCKS = {}
    /\ now = 0
    /\ call = NoCall
    /\ lockers = [h \in Holders |-> IdleEditor]
    /\ BUSINESS_GROUP_APPROVERS =
         {<<"BG1", "alice">>, <<"BG1", "bob">>, <<"BG2", "carol">>, <<"FINAL", "dave">>}
    /\ BRM_RULE_APPROVALS = OldApprovals
    /\ build = NoBuild
    /\ crud = NoCrud

\* holder h enters update_rule(conn, rule_data, h, user_group)
EditCall(h) ==
    /\ lockers[h].pc = "idle"
    /\ lockers[h].calls < MaxEdits
    /\ \E rid \in LockRuleIds : \E rule_data \in RuleDatas(rid) :
         lockers' = [lockers EXCEPT ![h] = [IdleEditor EXCEPT !.pc = "call", !.rule_id = rid,
                                               !.rule_data = rule_data,
                                               !.calls = lockers[h].calls + 1]]
    /\ UNCHANGED <<tableVars, runVars, RULE_LOCKS, now, call, approvalVars, crud>>

\* line 485: lock_rule(conn, rid, updated_by)
EditLock(h) ==
    /\ lockers[h].pc = "call"
    /\ \E res \in lock_rule(RULE_LOCKS, now, lockers[h].rule_id, h, FALSE) :
         /\ RULE_LOCKS' = res.locks
         /\ lockers' = [lockers EXCEPT ![h].pc = IF res.exc = "none" THEN "locked"
                                                  ELSE "raised",
                                        ![h].exc = res.exc]
    /\ UNCHANGED <<tableVars, runVars, now, call, approvalVars, crud>>

\* lines 486-554: the row is read, the UPDATE is executed, and insert_audit_log
\* commits it or raises into the finally clause
EditMutate(h) ==
    /\ lockers[h].pc = "locked"
    /\ LET rid == lockers[h].rule_id
       IN  IF rid \notin DOMAIN BRM_RULES
           THEN /\ lockers' = [lockers EXCEPT ![h].pc = "raised", ![h].exc = "ValueError"]
                /\ UNCHANGED BRM_RULES
           ELSE \E audit \in AuditOutcomes :
                  /\ BRM_RULES' = [BRM_RULES EXCEPT ![rid] =
                                      UpdatedRow(BRM_RULES[rid], lockers[h].rule_data)]
                  /\ lockers' = [lockers EXCEPT
                                    ![h].pc = IF audit = "ok" THEN "mutated" ELSE "failed",
                                    ![h].exc = IF audit = "ok" THEN "none" ELSE "Exception"]
    /\ UNCHANGED <<BRM_GLOBAL_CRITICAL_LINKS, RULE_CONFLICTS, COMPOSITE_RULES, runVars,
                   RULE_LOCKS, now, call, approvalVars, crud>>

\* line 555: create_multistep_approvals(conn, rid, updated_by)
EditRebuild(h) ==
    /\ lockers[h].pc = "mutated"
    /\ \E others \in Perms(OtherGroups(lockers[h].rule_id)) :
         BRM_RULE_APPROVALS' =
            create_multistep_approvals(BRM_RULE_APPROVALS, lockers[h].rule_id, others)
    /\ lockers' = [lockers EXCEPT ![h].pc = "rebuilt"]
    /\ UNCHANGED <<tableVars, runVars, RULE_LOCKS, now, call, BUSINESS_GROUP_APPROVERS,
                   build, crud>>

\* lines 557-558: finally: unlock_rule(conn, rid, updated_by)
EditUnlock(h) ==
    /\ lockers[h].pc \in {"rebuilt", "failed"}
    /\ \E res \in unlock_rule(RULE_LOCKS, lockers[h].rule_id, h, FALSE) :
         /\ RULE_LOCKS' = res.locks
         /\ lockers' = [lockers EXCEPT
                           ![h].pc = IF lockers[h].pc = "failed" \/ res.exc # "none"
                                     THEN "raised" ELSE "returned",
                           ![h].exc = IF lockers[h].pc = "failed" THEN lockers[h].exc
                                      ELSE res.exc]
    /\ UNCHANGED <<tableVars, runVars, now, call, approvalVars, crud>>

NextEditors ==
    \/ Tick
    \/ \E h \in Holders : EditCall(h)
    \/ \E h \in Holders : EditLock(h)
    \/ \E h \in Holders : EditMutate(h)
    \/ \E h \in Holders : EditRebuild(h)
    \/ \E h \in Holders : EditUnlock(h)

SpecEditors == InitEditors /\ [][NextEditors]_vars

-----------------------------------------------------------------------------
(* Properties *)

\* the edges of the four relationship tables, read off the tables themselves
TableEdges ==
    AllEdges(BRM_RULES, BRM_GLOBAL_CRITICAL_LINKS, RULE_CONFLICTS, COMPOSITE_RULES)

\* the nodes reachable from the set S over the edges E, S included
RECURSIVE Closure(_, _)
Closure(S, E) ==
    LET next == S \cup { e[2] : e \in { x \in E : x[1] \in S } }
    IN  IF next = S THEN S ELSE Closure(next, E)

\* the nodes reachable from r over at least one edge
Descendants(r, E) == Closure({ e[2] : e \in { x \in E : x[1] = r } }, E)

LoggedIds == { RULE_EXECUTION_LOGS[i].RULE_ID : i \in DOMAIN RULE_EXECUTION_LOGS }

LogCount(r) ==
    Cardinality({ i \in DOMAIN RULE_EXECUTION_LOGS : RULE_EXECUTION_LOGS[i].RULE_ID = r })

\* rule r has failed in this run
HasFailed(r) ==
    \E i \in DOMAIN RULE_EXECUTION_LOGS :
        RULE_EXECUTION_LOGS[i].RULE_ID = r /\ RULE_EXECUTION_LOGS[i].PASS_FLAG = 0

IsCritical(r) ==
    r \in DOMAIN BRM_RULES
        /\ (BRM_RULES[r].CRITICAL_RULE = 1 \/ BRM_RULES[r].IS_GLOBAL = 1)

\* the next step of the run is a call of the runner on the head of the queue
AboutToRun ==
    /\ pc = "running"
    /\ queue # <<>>
    /\ Head(queue) \notin skipped
    /\ Head(queue) \in DOMAIN rule_map

\* C1: in any BFS run no rule is executed a second time: every rule id occurs at
\* most once in `executed`, and the runner is invoked (and logged) at most once per rule.
C1_ExecutedAtMostOnce ==
    \A r \in RuleIds : Occurrences(executed, r) <= 1 /\ LogCount(r) <= 1

\* C2: a BFS run that has passed the validations always terminates: the queue
\* becomes empty and the run returns.
C2_RunTerminates == (pc = "running") ~> (pc = "done")

\* C3: when the run ends, every node reachable from a critical or global rule that
\* failed is in `skipped` and absent from `executed` (stated for the runs in which
\* no rule ran twice, so that a violation owes nothing to a repeated execution).
C3_CriticalFailureSkipsReachable ==
    (pc = "done" /\ \A r \in RuleIds : LogCount(r) <= 1) =>
        \A r \in RuleIds :
            (IsCritical(r) /\ HasFailed(r)) =>
                \A n \in Descendants(r, TableEdges) :
                    n \in skipped /\ n \notin Range(executed)

\* C4: when a rule that is neither critical nor global fails, only that rule is
\* added to `skipped`.
C4_NonCriticalFailureSkipsOnlyItself ==
    [][ (AboutToRun /\ ~IsCritical(Head(queue)) /\ ~lastTx'.success)
            => skipped' = skipped \cup {Head(queue)} ]_vars

\* the ids that occur in an edge and are absent from the rule table
DanglingIds ==
    ({ e[1] : e \in TableEdges } \cup { e[2] : e \in TableEdges }) \ DOMAIN BRM_RULES

\* the rules of the table that have no parent
TableRoots == { r \in DOMAIN BRM_RULES : BRM_RULES[r].PARENT_RULE_ID = 0 }

\* C5 (as stated): a rule id that occurs in an edge and is absent from the registry
\* always ends the run in `skipped` and is never in `executed`.
C5_DanglingAlwaysSkipped ==
    pc = "done" =>
        \A d \in DanglingIds : d \in skipped /\ d \notin Range(executed)

\* C5 (amended): a dangling id is never executed and never handed to the runner;
\* once a rule with an edge to it has executed successfully it is in `skipped` or
\* still waiting in the queue, so it is in `skipped` when the run ends.
C5_DanglingNeverRunSkippedOnceReached ==
    \A d \in DanglingIds :
        /\ d \notin Range(executed)
        /\ d \notin LoggedIds
        /\ (pc \in {"running", "done"}
              /\ \E p \in Range(executed) : <<p, d>> \in TableEdges)
             => (d \in skipped \/ d \in Range(queue))
        /\ (pc = "done" /\ \E p \in Range(executed) : <<p, d>> \in TableEdges)
             => d \in skipped

C5_Witness ==
    /\ pc = "done"
    /\ \E d \in DanglingIds :
         d \in skipped /\ \E p \in Range(executed) : <<p, d>> \in TableEdges

\* C6: when a data validation fails the run aborts before any rule executes: the
\* runner is never invoked, no execution log is written, nothing is executed or
\* skipped, and the run never reaches its return.
C6_ValidationFailureAbortsBeforeAnyRule ==
    ~overall_valid =>
        /\ pc = "aborted"
        /\ queue = <<>>
        /\ executed = <<>>
        /\ skipped = {}
        /\ RULE_EXECUTION_LOGS = <<>>
        /\ lastTx = NoTx

C6_Witness == pc = "aborted" /\ ~overall_valid /\ RootSet(BRM_RULES) # {}

\* C7 (as stated): a rule that has a parent is executed only after its parent has
\* been executed successfully earlier in the same run.
C7_ChildAfterParent ==
    \A i \in DOMAIN executed :
        BRM_RULES[executed[i]].PARENT_RULE_ID # 0 =>
            \E j \in 1 .. (i - 1) : executed[j] = BRM_RULES[executed[i]].PARENT_RULE_ID

\* C7 (amended): a rule is executed only if it has no parent or some rule with an
\* edge to it (its parent, a global-critical source, a conflict partner or a
\* referenced sub-rule) has been executed successfully earlier in the same run; when
\* the parent edge is the only edge into it, that rule is its parent.
C7_ExecutedAfterSomePredecessor ==
    \A i \in DOMAIN executed :
        LET c == executed[i]
            earlier == { executed[j] : j \in 1 .. (i - 1) }
            into == { e \in TableEdges : e[2] = c }
        IN  /\ c \in TableRoots \/ \E p \in earlier : <<p, c>> \in TableEdges
            /\ (c \notin TableRoots /\ into = {<<BRM_RULES[c].PARENT_RULE_ID, c>>})
                 => BRM_RULES[c].PARENT_RULE_ID \in earlier

C7_Witness ==
    \E i \in DOMAIN executed :
        /\ BRM_RULES[executed[i]].PARENT_RULE_ID # 0
        /\ \E j \in 1 .. (i - 1) : executed[j] = BRM_RULES[executed[i]].PARENT_RULE_ID

\* the relationship graph is an acyclic parent forest with no other edge
IsParentForest ==
    /\ BRM_GLOBAL_CRITICAL_LINKS = {}
    /\ RULE_CONFLICTS = {}
    /\ COMPOSITE_RULES = {}
    /\ \A r \in DOMAIN BRM_RULES : r \notin Descendants(r, ParentEdges(BRM_RULES))

C9_TransactionEndedOnce ==
    LET st == lastTx.stmts
        opened == "BEGIN TRANSACTION" \in Range(st)
        ends == { i \in DOMAIN st : st[i] \in {"COMMIT", "ROLLBACK"} }
    IN  /\ opened => /\ st[1] = "BEGIN TRANSACTION"
                     /\ Cardinality({ i \in DOMAIN st : st[i] = "BEGIN TRANSACTION" }) = 1
                     /\ ends = {Len(st)}
        /\ "COMMIT" \in Range(st) => (lastTx.success /\ ~dry_run)
        /\ (opened /\ lastTx.success /\ ~dry_run) => st[Len(st)] = "COMMIT"
        /\ (opened /\ (dry_run \/ ~lastTx.success)) => st[Len(st)] = "ROLLBACK"
        /\ db_result.raises # "none" => "COMMIT" \notin Range(st)

C9_Witness ==
    /\ pc = "ran"
    /\ dry_run
    /\ lastTx.success
    /\ lastTx.stmts = <<"BEGIN TRANSACTION", "RULE_SQL", "ROLLBACK">>

\* C10: for a standard rule whose SQL raises nothing, the rule succeeds exactly when
\* no row is returned or the first column of the first row is 1, and the record
\* count is the number of rows fetched; a decision-table rule succeeds without
\* executing SQL.
C10_SuccessAndRecordCount ==
    rule_info # NoInfo /\ pc # "runner" =>
        IF rule_info.OPERATION_TYPE = "DECISION_TABLE"
        THEN lastTx.success /\ "RULE_SQL" \notin Range(lastTx.stmts)
        ELSE db_result.raises = "none" =>
               /\ lastTx.success <=> (db_result.rows = <<>> \/ db_result.rows[1] = 1)
               /\ lastTx.row_count = Len(db_result.rows)

C10_Witness ==
    /\ pc = "ran"
    /\ rule_info.OPERATION_TYPE # "DECISION_TABLE"
    /\ db_result = [raises |-> "none", rows |-> <<>>]
    /\ lastTx.success
    /\ lastTx.row_count = 0

\* C11: an exception raised by a rule's SQL is isolated: the transaction is rolled
\* back and never committed, the rule fails with the exception text as its message
\* and record count 0, the run goes on with the rest of the queue, and a dequeued
\* rule that is not skipped and is in the registry is always handed to the runner.
C11_SqlExceptionIsolated ==
    [][ /\ (AboutToRun /\ rule_map[Head(queue)].OPERATION_TYPE # "DECISION_TABLE"
               /\ db_result'.raises # "none")
            => /\ ~lastTx'.success
               /\ lastTx'.message.kind = "exception"
               /\ lastTx'.row_count = 0
               /\ lastTx'.stmts # <<>>
               /\ lastTx'.stmts[Len(lastTx'.stmts)] = "ROLLBACK"
               /\ "COMMIT" \notin Range(lastTx'.stmts)
               /\ executed' = executed
               /\ Head(queue) \in skipped'
               /\ pc' = "running"
               /\ queue' = Tail(queue)
        /\ (AboutToRun /\ queue' # queue) => rule_info' = rule_map[Head(queue)]
        /\ (pc = "running" /\ queue # <<>>)
            => \E k \in 0 .. Len(queue') :
                 Tail(queue) = SubSeq(queue', 1, Len(queue') - k) ]_vars

C11_Witness ==
    \E i \in DOMAIN RULE_EXECUTION_LOGS :
        /\ RULE_EXECUTION_LOGS[i].MESSAGE.kind = "exception"
        /\ RULE_EXECUTION_LOGS[i].PASS_FLAG = 0
        /\ RULE_EXECUTION_LOGS[i].RECORD_COUNT = 0
        /\ i + 1 \in DOMAIN RULE_EXECUTION_LOGS
        /\ RULE_EXECUTION_LOGS[i + 1].RULE_ID # RULE_EXECUTION_LOGS[i].RULE_ID

\* C12: every invocation of the runner in a BFS run, passed or failed, dry run or
\* not, appends exactly one execution-log entry holding that invocation's rule id,
\* pass flag, message and record count; a step that skips the dequeued rule (already
\* skipped, or dangling) invokes nothing and logs nothing.
C12_OneLogPerInvocation ==
    [][ (pc = "running" /\ queue # <<>> /\ Len(RULE_EXECUTION_LOGS) < MaxLog) =>
          IF AboutToRun
          THEN /\ rule_info' = rule_map[Head(queue)]
               /\ RULE_EXECUTION_LOGS' =
                    Append(RULE_EXECUTION_LOGS,
                           [RULE_ID |-> Head(queue),
                            PASS_FLAG |-> IF lastTx'.success THEN 1 ELSE 0,
                            MESSAGE |-> lastTx'.message,
                            RECORD_COUNT |-> lastTx'.row_count])
          ELSE /\ RULE_EXECUTION_LOGS' = RULE_EXECUTION_LOGS
               /\ lastTx' = lastTx ]_vars

C12_Witness ==
    /\ dry_run
    /\ pc = "done"
    /\ \E i, j \in DOMAIN RULE_EXECUTION_LOGS :
         RULE_EXECUTION_LOGS[i].PASS_FLAG = 1 /\ RULE_EXECUTION_LOGS[j].PASS_FLAG = 0
    /\ \E r \in skipped : r \notin LoggedIds

\* C13: a rule whose STATUS is not ACTIVE is never executed by a BFS run: the
\* runner is not invoked on it and it is never in `executed`.
C13_OnlyActiveRulesRun ==
    \A r \in LoggedIds \cup Range(executed) : BRM_RULES[r].STATUS = "ACTIVE"

\* a lock row is live at time t
IsLive(l, t) == DateDiffMinute(l.LOCK_TIMESTAMP, t) <= TTL_MINUTES

LocksOf(locks, r) == { l \in locks : l.RULE_ID = r }

\* C14: for any interleaving of the statements of two lock_rule calls made without
\* force by two holders on one rule, the lock table never holds two lock rows for
\* a rule, and the two calls never both return while both locks are live.
C14_LockExclusive ==
    /\ \A r \in LockRuleIds : Cardinality(LocksOf(RULE_LOCKS, r)) <= 1
    /\ ~ \E r \in LockRuleIds :
           /\ \A h \in Holders :
                /\ lockers[h].pc = "returned"
                /\ lockers[h].rule_id = r
                /\ ~lockers[h].force
           /\ \A h \in Holders :
                \E l \in LocksOf(RULE_LOCKS, r) : l.LOCKED_BY = h /\ IsLive(l, now)

\* the step is an uninterrupted call of fn
CallOf(fn) == call.status = "pending" /\ call.fn = fn /\ call'.status # "pending"

\* C15: lock_rule without force on a rule on which another holder has a live lock
\* raises the locking conflict and leaves that lock row as it was: same holder, same
\* timestamp.
C15_LiveLockConflict ==
    [][ \A l \in RULE_LOCKS :
          (CallOf("lock_rule") /\ ~call.force /\ l.RULE_ID = call.rule_id
              /\ l.LOCKED_BY # call.locked_by /\ IsLive(l, now))
          => /\ call'.status = "raised"
             /\ call'.exc = "ValueError"
             /\ call'.msg = "is already locked by"
             /\ LocksOf(RULE_LOCKS', call.rule_id) = LocksOf(RULE_LOCKS, call.rule_id)
             /\ l \in RULE_LOCKS' ]_vars

C15_Witness ==
    /\ call.fn = "lock_rule"
    /\ call.status = "raised"
    /\ ~call.force
    /\ \E l \in call.before :
         /\ l.LOCKED_BY # call.locked_by
         /\ l.LOCK_TIMESTAMP < now
         /\ IsLive(l, now)
         /\ LocksOf(RULE_LOCKS, call.rule_id) = {l}

C17_ForceOverrides ==
    [][ /\ (CallOf("lock_rule") /\ call.force)
            => /\ call'.status = "returned"
               /\ LocksOf(RULE_LOCKS', call.rule_id)
                    = {LockRow(call.rule_id, call.locked_by, now)}
        /\ (CallOf("unlock_rule") /\ call.force)
            => /\ call'.status = "returned"
               /\ LocksOf(RULE_LOCKS', call.rule_id) = {} ]_vars

\* a forced lock_rule has just taken the rule from the live lock of another holder
C17_Witness ==
    /\ call.fn = "lock_rule"
    /\ call.status = "returned"
    /\ call.force
    /\ \E l \in call.before : l.LOCKED_BY # call.locked_by /\ IsLive(l, now)
    /\ LocksOf(RULE_LOCKS, call.rule_id) = {LockRow(call.rule_id, call.locked_by, now)}

\* the approval rows of rule r, as a bag
ApprovalsOf(approvals, r) ==
    [ row \in { x \in DOMAIN approvals : x.RULE_ID = r } |-> approvals[row] ]

C20_StageOrder ==
    \A r \in Range(build) :
        LET rows == DOMAIN ApprovalsOf(BRM_RULE_APPROVALS, r)
            stages == { row.APPROVAL_STAGE : row \in rows }
        IN  \E n \in stages :
              /\ n >= 2
              /\ stages = 1 .. n
              /\ \A row \in rows :
                   /\ row.GROUP_NAME = "BG1" => row.APPROVAL_STAGE = 1
                   /\ row.GROUP_NAME = "FINAL" <=> row.APPROVAL_STAGE = n

\* the caller of the rule edit has a lock row on its rule
HoldsLock(locks) ==
    \E l \in locks : l.RULE_ID = crud.rule_id /\ l.LOCKED_BY = crud.by

\* C18: update_rule, deactivate_rule and delete_rule lock, mutate, rebuild the
\* approval pipeline (update_rule), then release: BRM_RULES and BRM_RULE_APPROVALS
\* change only while the caller holds the lock of the rule; the caller's lock goes
\* only when the mutation and, in update_rule, the rebuild are done; and a call
\* whose lock_rule raises changes neither table.
C18_LockMutateRebuildRelease ==
    [][ /\ (crud.op # "add_rule"
              /\ (BRM_RULES' # BRM_RULES \/ BRM_RULE_APPROVALS' # BRM_RULE_APPROVALS))
            => /\ crud.pc \in {"locked", "mutated"}
               /\ HoldsLock(RULE_LOCKS)
               /\ RULE_LOCKS' = RULE_LOCKS
        /\ (crud.op # "add_rule" /\ crud.pc \notin {"idle", "call", "returned", "raised"}
              /\ HoldsLock(RULE_LOCKS) /\ ~HoldsLock(RULE_LOCKS'))
            => /\ crud.pc = IF crud.op = "update_rule" THEN "rebuilt" ELSE "mutated"
               /\ crud.rule_id \in DOMAIN BRM_RULES
                    => /\ BRM_RULES[crud.rule_id].STATUS = "INACTIVE"
                       /\ BRM_RULES[crud.rule_id].VERSION > 1
               /\ crud.op = "update_rule"
                    => \A row \in DOMAIN BRM_RULE_APPROVALS :
                         row.RULE_ID = crud.rule_id => row.APPROVED_FLAG = 0
        /\ (crud.op # "add_rule" /\ crud.pc = "call" /\ crud'.pc = "raised")
            => /\ BRM_RULES' = BRM_RULES
               /\ BRM_RULE_APPROVALS' = BRM_RULE_APPROVALS ]_vars

\* the groups of the stages of rule r's approval rows
StageGroups(r) ==
    { <<row.APPROVAL_STAGE, row.GROUP_NAME>> : row \in DOMAIN ApprovalsOf(BRM_RULE_APPROVALS, r) }

\* C21: the pipeline built for a rule is "BG1", then "BG2" if impacted, then "BG3"
\* if impacted, then the other impacted groups, then "FINAL", and no group name
\* occupies two stages, whatever the owner groups of the related rules are.
C21_PipelineDeduplicated ==
    \A r \in Range(build) :
        LET sg == StageGroups(r)
            impacted == find_impacted_business_groups(r)
            StageOf(g) == CHOOSE n \in { x[1] : x \in sg } : <<n, g>> \in sg
            last == Cardinality({ x[2] : x \in sg })
        IN  /\ \A x \in sg : \A y \in sg : (x[2] = y[2] => x[1] = y[1]) /\ (x[1] = y[1] => x[2] = y[2])
            /\ { x[2] : x \in sg } = {"BG1", "FINAL"} \cup impacted
            /\ StageOf("BG1") = 1
            /\ StageOf("FINAL") = last
            /\ "BG2" \in impacted => StageOf("BG2") = 2
            /\ "BG3" \in impacted => StageOf("BG3") = IF "BG2" \in impacted THEN 3 ELSE 2

\* C22: a stage of a built pipeline whose group has no configured approver has
\* exactly one row, of the approver "<group>_default"; any other stage has exactly
\* one row per configured approver of its group; and every row is pending.
C22_StageRows ==
    \A r \in Range(build) : \A x \in StageGroups(r) :
        LET rows == { row \in DOMAIN BRM_RULE_APPROVALS :
                        row.RULE_ID = r /\ row.APPROVAL_STAGE = x[1] }
            configured == { a[2] : a \in { b \in BUSINESS_GROUP_APPROVERS : b[1] = x[2] } }
        IN  /\ \A row \in rows :
                 /\ BRM_RULE_APPROVALS[row] = 1
                 /\ row.GROUP_NAME = x[2]
                 /\ row.APPROVED_FLAG = 0
                 /\ row.APPROVED_TIMESTAMP = "NULL"
            /\ { row.USERNAME : row \in rows } =
                 IF configured = {} THEN {x[2] \o "_default"} ELSE configured
            /\ Cardinality(rows) = IF configured = {} THEN 1 ELSE Cardinality(configured)

\* a pipeline over an old approved row has a stage with the two approvers of BG1,
\* a stage with the one approver of FINAL and a stage with a default approver
C22_Witness ==
    /\ 2 \in Range(build)
    /\ \E row \in DOMAIN OldApprovals : row \in DOMAIN BRM_RULE_APPROVALS
    /\ { row.USERNAME : row \in { x \in DOMAIN BRM_RULE_APPROVALS :
                                    x.RULE_ID = 2 /\ x.APPROVAL_STAGE = 1 } }
         = {"alice", "bob"}
    /\ \E row \in DOMAIN BRM_RULE_APPROVALS :
         row.RULE_ID = 2 /\ row.USERNAME = "BG5_default" /\ row.APPROVAL_STAGE = 2
    /\ \E row \in DOMAIN BRM_RULE_APPROVALS :
         row.RULE_ID = 2 /\ row.USERNAME = "dave" /\ row.APPROVAL_STAGE = 3

\* the rules of the table reachable from r over the edges of the four tables
RelatedRows(r) == Closure({r}, TableEdges) \cap DOMAIN BRM_RULES

\* for every rule whose pipeline was built: unified_get_related_rules has added no
\* rule twice to `visited`; and no rule was run and no execution log written
C23_VisitsOnceNoExecution ==
    /\ \A r \in Range(build) :
         LET order == RelatedLoop(<<r>>, BuildAdjacency(TableEdges), {})
         IN  Cardinality(Range(order)) = Len(order)
    /\ RULE_EXECUTION_LOGS = <<>>
    /\ executed = <<>>
    /\ pc = "off"

\* C23 as stated: the impacted groups of a rule whose pipeline is built are exactly
\* the distinct non-null OWNER_GROUP values of the rules reachable from it, itself
\* included, over the adjacency of the BFS engine; the traversal ends, visits no
\* rule twice, runs no rule and writes no execution log.
C23_ImpactedGroupsNonNull ==
    /\ \A r \in Range(build) :
         find_impacted_business_groups(r)
            = { BRM_RULES[x].OWNER_GROUP : x \in RelatedRows(r) } \ {NullGroup}
    /\ C23_VisitsOnceNoExecution

\* C23 amended: the impacted groups of a rule whose pipeline is built are exactly
\* the distinct OWNER_GROUP values, neither NULL nor the empty string, of the rules
\* reachable from it, itself included; the traversal ends, visits no rule twice,
\* runs no rule and writes no execution log.
C23_ImpactedGroupsNonEmpty ==
    /\ \A r \in Range(build) :
         /\ find_impacted_business_groups(r)
              = { BRM_RULES[x].OWNER_GROUP : x \in RelatedRows(r) } \ {NullGroup, ""}
         /\ { x[2] : x \in StageGroups(r) }
              = {"BG1", "FINAL"} \cup find_impacted_business_groups(r)
    /\ C23_VisitsOnceNoExecution

\* the pipeline of rule 1 is built; its child 2 has the empty owner group and the
\* grandchild 3 is owned by BG4, which has a stage, while no stage has an empty group
C23_Witness ==
    /\ build = <<1>>
    /\ DOMAIN BRM_RULES = {1, 2, 3}
    /\ BRM_RULES[2].PARENT_RULE_ID = 1 /\ BRM_RULES[2].OWNER_GROUP = ""
    /\ BRM_RULES[3].PARENT_RULE_ID = 2 /\ BRM_RULES[3].OWNER_GROUP = "BG4"
    /\ BRM_RULES[1].OWNER_GROUP = NullGroup
    /\ { x[2] : x \in StageGroups(1) } = {"BG1", "BG4", "FINAL"}

\* the approval rows of rule r are those of one pipeline, all of them pending
PipelineBuilt(r) ==
    /\ \E others \in Perms(OtherGroups(r)) :
         ApprovalsOf(BRM_RULE_APPROVALS, r) = create_multistep_approvals(EmptyBag, r, others)
    /\ \E row \in DOMAIN BRM_RULE_APPROVALS : row.RULE_ID = r
    /\ \A row \in DOMAIN BRM_RULE_APPROVALS :
         row.RULE_ID = r => row.APPROVED_FLAG = 0 /\ row.APPROVED_TIMESTAMP = "NULL"

\* the call of function op has returned normally
Returned(op) == crud.pc = "returned" /\ crud.op = op

\* C24: when update_rule has returned, the rule's VERSION is one more than before,
\* its STATUS is INACTIVE, its LIFECYCLE_STATE is UNDER_APPROVAL and its approval
\* rows are a rebuilt pipeline of pending rows; when add_rule has returned, the new
\* rule is INACTIVE and DRAFT with VERSION 1 and has its pipeline built.
C24_UpdateAndAddResult ==
    /\ Returned("update_rule") =>
         /\ crud.rule_id \in DOMAIN BRM_RULES
         /\ BRM_RULES[crud.rule_id].VERSION = crud.old_data.VERSION + 1
         /\ BRM_RULES[crud.rule_id].STATUS = "INACTIVE"
         /\ BRM_RULES[crud.rule_id].LIFECYCLE_STATE = "UNDER_APPROVAL"
         /\ PipelineBuilt(crud.rule_id)
    /\ Returned("add_rule") =>
         /\ crud.rule_id \in DOMAIN BRM_RULES
         /\ BRM_RULES[crud.rule_id].VERSION = 1
         /\ BRM_RULES[crud.rule_id].STATUS = "INACTIVE"
         /\ BRM_RULES[crud.rule_id].LIFECYCLE_STATE = "DRAFT"
         /\ PipelineBuilt(crud.rule_id)

\* update_rule has returned for a rule that add_rule had inserted in the call
\* before: the draft of version 1 is under approval with version 2
C24_Witness ==
    /\ Returned("update_rule")
    /\ crud.calls = 2
    /\ crud.old_data.LIFECYCLE_STATE = "DRAFT"
    /\ crud.old_data.VERSION = 1
    /\ BRM_RULES[crud.rule_id].VERSION = 2
    /\ BRM_RULES[crud.rule_id].OWNER_GROUP = "BG5"

\* a step of a call of function op up to its statement on BRM_RULES: lock_rule, or
\* the tests and the UPDATE or DELETE
StepOf(op) == crud.op = op /\ crud.pc \in {"call", "locked"}

\* the rule of the call is approved and no rule with STATUS ACTIVE has it as parent
MayDeactivate ==
    /\ crud.rule_id \in DOMAIN BRM_RULES
    /\ BRM_RULES[crud.rule_id].APPROVAL_STATUS = "APPROVED"
    /\ \A ch \in DOMAIN BRM_RULES :
         BRM_RULES[ch].PARENT_RULE_ID = crud.rule_id => BRM_RULES[ch].STATUS # "ACTIVE"

\* the three columns of the rule of the call are as they were
SameState ==
    \A r \in DOMAIN BRM_RULES \cap {crud.rule_id} :
        /\ r \in DOMAIN BRM_RULES'
        /\ BRM_RULES'[r].STATUS = BRM_RULES[r].STATUS
        /\ BRM_RULES'[r].LIFECYCLE_STATE = BRM_RULES[r].LIFECYCLE_STATE
        /\ BRM_RULES'[r].VERSION = BRM_RULES[r].VERSION

\* C25 as stated: deactivate_rule changes the rule only when it is approved and
\* has no active child; in every other case the call raises and the rule's STATUS,
\* LIFECYCLE_STATE and VERSION stay as they are.
C25_DeactivateNeedsApproval ==
    [][ (StepOf("deactivate_rule") /\ ~MayDeactivate)
          => /\ SameState
             /\ crud'.pc \in {"locked", "raised"}
             /\ crud.pc = "locked" => crud'.pc = "raised" ]_vars

\* C25 amended: without force, deactivate_rule changes the rule only when it is
\* approved and has no active child, and in every other case raises and leaves
\* STATUS, LIFECYCLE_STATE and VERSION as they are; with force it skips both tests,
\* and raises only for a rule that is not in the table.
C25_DeactivateNeedsApprovalOrForce ==
    [][ /\ (StepOf("deactivate_rule") /\ ~MayDeactivate /\ ~crud.force)
            => /\ SameState
               /\ crud'.pc \in {"locked", "raised"}
               /\ crud.pc = "locked" => crud'.pc = "raised"
        /\ (StepOf("deactivate_rule") /\ crud.pc = "locked" /\ crud.force
               /\ crud.rule_id \in DOMAIN BRM_RULES)
            => \/ /\ crud'.pc = "mutated"
                  /\ BRM_RULES'[crud.rule_id].STATUS = "INACTIVE"
                  /\ BRM_RULES'[crud.rule_id].LIFECYCLE_STATE = "INACTIVE"
                  /\ BRM_RULES'[crud.rule_id].VERSION = BRM_RULES[crud.rule_id].VERSION + 1
               \/ crud'.msg = "Failed to insert audit log"
        /\ (StepOf("deactivate_rule") /\ crud.pc = "locked"
               /\ crud.rule_id \notin DOMAIN BRM_RULES)
            => crud'.pc = "raised" /\ BRM_RULES' = BRM_RULES ]_vars

\* deactivate_rule with force has returned for a rule under approval that has an
\* active child
C25_Witness ==
    /\ Returned("deactivate_rule")
    /\ crud.force
    /\ crud.old_data.APPROVAL_STATUS = "APPROVAL_IN_PROGRESS"
    /\ \E ch \in DOMAIN BRM_RULES :
         BRM_RULES[ch].PARENT_RULE_ID = crud.rule_id /\ BRM_RULES[ch].STATUS = "ACTIVE"
    /\ BRM_RULES[crud.rule_id].LIFECYCLE_STATE = "INACTIVE"
    /\ BRM_RULES[crud.rule_id].VERSION = 2

\* the rule of the call is deactivated and approved and is no rule's parent
MayDelete ==
    /\ crud.rule_id \in DOMAIN BRM_RULES
    /\ BRM_RULES[crud.rule_id].STATUS = "INACTIVE"
    /\ BRM_RULES[crud.rule_id].APPROVAL_STATUS = "APPROVED"
    /\ \A ch \in DOMAIN BRM_RULES : BRM_RULES[ch].PARENT_RULE_ID # crud.rule_id

\* C26 as stated: delete_rule removes the rule only when it is INACTIVE and
\* APPROVED and has no child rule; in every other case the call raises and the rule
\* stays in BRM_RULES.
C26_DeleteNeedsInactiveApproved ==
    [][ (StepOf("delete_rule") /\ ~MayDelete)
          => /\ BRM_RULES' = BRM_RULES
             /\ crud'.pc \in {"locked", "raised"}
             /\ crud.pc = "locked" => crud'.pc = "raised" ]_vars

\* C26 amended: delete_rule never removes a rule that has a child rule, nor a
\* global rule for a caller outside group "Admin"; without force it removes the
\* rule only when it is INACTIVE and APPROVED; in each of these other cases the
\* call raises and the rule stays. With force the tests of STATUS and
\* APPROVAL_STATUS are skipped.
C26_DeleteNeedsInactiveApprovedOrForce ==
    [][ /\ (StepOf("delete_rule")
               /\ \/ ~MayDelete /\ ~crud.force
                  \/ \E ch \in DOMAIN BRM_RULES : BRM_RULES[ch].PARENT_RULE_ID = crud.rule_id
                  \/ /\ crud.rule_id \in DOMAIN BRM_RULES
                     /\ BRM_RULES[crud.rule_id].IS_GLOBAL = 1
                     /\ crud.user_group # "Admin"
                  \/ crud.rule_id \notin DOMAIN BRM_RULES)
            => /\ BRM_RULES' = BRM_RULES
               /\ crud'.pc \in {"locked", "raised"}
               /\ crud.pc = "locked" => crud'.pc = "raised"
        /\ (StepOf("delete_rule") /\ crud.pc = "locked" /\ crud.force
               /\ crud.rule_id \in DOMAIN BRM_RULES
               /\ \A ch \in DOMAIN BRM_RULES : BRM_RULES[ch].PARENT_RULE_ID # crud.rule_id
               /\ (BRM_RULES[crud.rule_id].IS_GLOBAL = 1 => crud.user_group = "Admin"))
            => \/ crud'.pc = "mutated" /\ crud.rule_id \notin DOMAIN BRM_RULES'
               \/ crud'.msg = "Failed to insert audit log" ]_vars

\* delete_rule with force has returned for a rule that was ACTIVE
C26_Witness ==
    /\ Returned("delete_rule")
    /\ crud.force
    /\ crud.old_data.STATUS = "ACTIVE"
    /\ crud.rule_id \notin DOMAIN BRM_RULES

\* insert_audit_log has failed in the call
AuditFailed == crud.msg = "Failed to insert audit log"

\* C27: when the audit insert fails inside add_rule, update_rule, deactivate_rule
\* or delete_rule, the call does not raise and the change of BRM_RULES it was
\* auditing is in effect.
C27_AuditFailureHarmless ==
    AuditFailed =>
        /\ crud.pc \notin {"failed", "raised"}
        /\ crud.op = "add_rule" => crud.rule_id \in DOMAIN BRM_RULES
        /\ crud.op = "delete_rule" => crud.rule_id \notin DOMAIN BRM_RULES
        /\ crud.op \in {"update_rule", "deactivate_rule"}
             => BRM_RULES[crud.rule_id].VERSION = crud.old_data.VERSION + 1

\* load_rule_relationships has returned to execute_rules_unified_bfs
Loaded == pc \in {"running", "done", "aborted"}

\* C28: the roots load_rule_relationships returns are exactly the ids of the rule
\* table that are no key of the parent map: each root is a rule of the table without
\* a parent, each rule without a parent is a root whatever link, conflict or
\* composite rows point to it, and an id that occurs only in those rows is no root.
C28_RootsAreParentlessRules ==
    Loaded =>
        /\ Range(roots) = DOMAIN BRM_RULES \ DOMAIN parent_map
        /\ Range(roots) = { r \in DOMAIN BRM_RULES : BRM_RULES[r].PARENT_RULE_ID = 0 }
        /\ Len(roots) = Cardinality(Range(roots))
        /\ \A e \in TableEdges :
             /\ e[1] \notin DOMAIN BRM_RULES => e[1] \notin Range(roots)
             /\ e[2] \notin DOMAIN BRM_RULES => e[2] \notin Range(roots)

\* the graph is loaded: rule 1 is a root and the target of a link from id 3, which
\* no row of the rule table has, and rule 2 has a parent
C28_Witness ==
    /\ Loaded
    /\ DOMAIN BRM_RULES = {1, 2}
    /\ BRM_RULES[2].PARENT_RULE_ID = 1
    /\ BRM_GLOBAL_CRITICAL_LINKS = {<<3, 1>>}
    /\ roots = <<1>>

\* the edges of the dict `adjacency`
AdjacencyEdges == UNION { {k} \X adjacency[k] : k \in DOMAIN adjacency }

\* the rule ids a logic expression of the model refers to
ReferencedIn(expr) ==
    IF expr = <<"R", "u", "l", "e", "1">> THEN {1}
    ELSE IF expr = <<"r", "u", "l", "e", " ", "2", " ", "A", "N", "D", " ",
                     "R", "U", "L", "E", "3">> THEN {2, 3}
    ELSE {}

\* C29: the adjacency load_rule_relationships builds has exactly these edges:
\* parent -> child for every rule with a parent, gcr -> target for every link row,
\* r1 -> r2 and r2 -> r1 for every conflict row, and sub-rule -> composite for every
\* rule id the composite's logic expression refers to.
C29_AdjacencyIsTheFourSources ==
    Loaded =>
        /\ AdjacencyEdges =
              { <<BRM_RULES[r].PARENT_RULE_ID, r>> :
                  r \in { x \in DOMAIN BRM_RULES : BRM_RULES[x].PARENT_RULE_ID # 0 } }
              \cup BRM_GLOBAL_CRITICAL_LINKS
              \cup RULE_CONFLICTS \cup { <<c[2], c[1]>> : c \in RULE_CONFLICTS }
              \cup UNION { ReferencedIn(c[2]) \X {c[1]} : c \in COMPOSITE_RULES }
        /\ \A c \in RULE_CONFLICTS :
              <<c[1], c[2]>> \in AdjacencyEdges /\ <<c[2], c[1]>> \in AdjacencyEdges
        /\ \A k \in DOMAIN adjacency : adjacency[k] # {}

\* the graph is loaded from a conflict row (1, 2) and a rule 3 with parent 1
C29_Witness ==
    /\ Loaded
    /\ RULE_CONFLICTS = {<<1, 2>>}
    /\ 3 \in DOMAIN BRM_RULES
    /\ BRM_RULES[3].PARENT_RULE_ID = 1
    /\ adjacency[1] = {2, 3}
    /\ adjacency[2] = {1}

\* in a finished run: X is a composite rule of the table whose logic expression
\* refers to a and b, a is a root that succeeded, and b, a rule that is neither
\* critical nor global, did not succeed
CompositeScenario(X, a, b) ==
    /\ pc = "done"
    /\ Len(RULE_EXECUTION_LOGS) < MaxLog
    /\ a # b /\ a # X /\ b # X
    /\ X \in DOMAIN BRM_RULES
    /\ BRM_RULES[X].PARENT_RULE_ID # b
    /\ \E c \in COMPOSITE_RULES : c[1] = X /\ {a, b} \subseteq ReferencedIn(c[2])
    /\ a \in Range(roots)
    /\ a \in Range(executed)
    /\ b \notin Range(executed)
    /\ ~IsCritical(b)

\* C30: for a composite rule X with edges a -> X and b -> X, if the root a succeeds
\* and b does not succeed, the runner is still invoked on X in that run.
C30_CompositeStillAttempted ==
    \A X \in RuleIds : \A a \in RuleIds : \A b \in RuleIds :
        CompositeScenario(X, a, b) => X \in LoggedIds

-----------------------------------------------------------------------------
(* order of the traversal *)

\* the ids of S in ascending order
Ascending(S) == CHOOSE s \in Perms(S) : \A i \in DOMAIN s : \A j \in DOMAIN s : i < j => s[i] < s[j]

\* C31: the traversal order is fixed by the tables: the root queue holds the root rules in
\* ascending order of rule id, so that two runs over the same tables and outcomes start
\* from the same queue and return the same `executed` and `skipped`.
C31_RootQueueAscending ==
    Loaded => roots = Ascending(RootSet(BRM_RULES))

-----------------------------------------------------------------------------
(* errors of the rule edits *)

\* the kinds of exception under which lock_rule reports a conflict
LockConflictKinds ==
    { res.exc : res \in lock_rule({LockRow(1, "B", 0)}, 0, 1, "A", FALSE) }

NotFoundMessages ==
    {"Rule not found for update.", "Rule not found for deactivation.",
     "Rule not found for deletion."}

ApprovalStateMessages ==
    {"Rule is not fully approved; cannot deactivate.",
     "Rule is not fully approved; cannot delete."}

\* C32: an edit that fails because the rule is not found, or because the rule is not
\* approved, raises an error of another kind than the kind that reports a lock conflict.
C32_LockConflictKindDistinct ==
    (crud.pc = "raised" /\ crud.msg \in NotFoundMessages \cup ApprovalStateMessages)
        => crud.exc \notin LockConflictKinds

\* C33: unlock_rule without force deletes the lock of the rule when the caller holds it;
\* when another holder has the lock the call raises and the lock table stays as it was;
\* when the rule has no lock the call returns and the lock table stays as it was.
C33_UnlockOnlyByHolder ==
    [][ (CallOf("unlock_rule") /\ ~call.force)
          => LET held == LocksOf(RULE_LOCKS, call.rule_id)
             IN  /\ (\E l \in held : l.LOCKED_BY # call.locked_by)
                       => /\ call'.status = "raised"
                          /\ call'.exc = "ValueError"
                          /\ RULE_LOCKS' = RULE_LOCKS
                 /\ (held # {} /\ \A l \in held : l.LOCKED_BY = call.locked_by)
                       => /\ call'.status = "returned"
                          /\ RULE_LOCKS' = RULE_LOCKS \ held
                 /\ held = {}
                       => /\ call'.status = "returned"
                          /\ RULE_LOCKS' = RULE_LOCKS ]_vars

\* unlock_rule without force has just been refused on the lock of another holder
C33_Witness ==
    /\ call.fn = "unlock_rule"
    /\ call.status = "raised"
    /\ ~call.force
    /\ \E l \in call.before : l.LOCKED_BY # call.locked_by /\ l \in RULE_LOCKS

\* C34: when update_rule, deactivate_rule or delete_rule has ended, by a return or by an
\* error raised after lock_rule returned, the caller holds no lock on the rule.
C34_NoLockLeftBehind ==
    (/\ crud.op \in {"update_rule", "deactivate_rule", "delete_rule"}
     /\ crud.pc \in {"returned", "raised"}
     /\ crud.msg # "is already locked by")
        => ~HoldsLock(RULE_LOCKS)

\* C35: a caller of update_rule whose UPDATE is committed is, at that step, the holder
\* of the lock of the rule: no other caller has taken the lock since lock_rule returned.
C35_CommitUnderOwnLock ==
    [][ \A h \in Holders :
          (lockers[h].pc = "locked" /\ lockers'[h].pc = "mutated")
            => \E l \in LocksOf(RULE_LOCKS, lockers[h].rule_id) : l.LOCKED_BY = h ]_vars

-----------------------------------------------------------------------------
(* the result of a run *)

\* C36: in every state of a BFS run, and in its result, no rule id is both in `executed`
\* and in `skipped`.
C36_ExecutedSkippedDisjoint ==
    Range(executed) \cap skipped = {}

\* C37: during a run `skipped` only grows, and the step that dequeues a rule that is in
\* `skipped` drops it: the runner is not invoked, nothing is logged, `executed` and
\* `skipped` stay as they are and no neighbour is enqueued.
C37_SkippedIsPermanent ==
    [][ pc = "running"
          => /\ skipped \subseteq skipped'
             /\ (queue # <<>> /\ Head(queue) \in skipped)
                   => /\ queue' = Tail(queue)
                      /\ UNCHANGED <<RULE_EXECUTION_LOGS, executed, skipped, runnerVars>> ]_vars

\* a root of the registry was skipped by a cascade and has left the queue without a run
C37_Witness ==
    /\ pc \in {"running", "done"}
    /\ Len(RULE_EXECUTION_LOGS) < MaxLog
    /\ \E r \in Range(roots) \cap DOMAIN rule_map :
         /\ r \in skipped
         /\ r \notin Range(queue)
         /\ r \notin LoggedIds

-----------------------------------------------------------------------------
(* children and versions *)

ChildrenOf(rules, rid) == { ch \in DOMAIN rules : rules[ch].PARENT_RULE_ID = rid }

\* C38: delete_rule on a rule that has child rules, with force or without, leaves the
\* rule table as it is and, once it holds the lock, raises; so no step of delete_rule
\* leaves a row whose parent is the rule it has deleted.
C38_DeleteKeepsParentOfChildren ==
    [][ crud.op = "delete_rule"
          => /\ (crud.rule_id \in DOMAIN BRM_RULES
                   /\ ChildrenOf(BRM_RULES, crud.rule_id) # {})
                  => /\ BRM_RULES' = BRM_RULES
                     /\ crud.pc = "locked"
                          => crud'.pc = "raised" /\ crud'.exc = "ValueError"
             /\ (crud.rule_id \in DOMAIN BRM_RULES /\ crud.rule_id \notin DOMAIN BRM_RULES')
                  => ChildrenOf(BRM_RULES', crud.rule_id) = {} ]_vars

\* a forced delete_rule by an administrator has been refused because of a child rule
C38_Witness ==
    /\ crud.op = "delete_rule"
    /\ crud.force
    /\ crud.user_group = "Admin"
    /\ crud.pc = "raised"
    /\ crud.msg = "Child rules exist; cannot delete this rule."
    /\ crud.rule_id \in DOMAIN BRM_RULES
    /\ ChildrenOf(BRM_RULES, crud.rule_id) # {}

\* the messages of the calls that fail before their UPDATE or DELETE
LockConflictMessages == {"is already locked by"}

\* C39: VERSION is 1 in the row add_rule inserts; no step lowers the VERSION of a row;
\* the VERSION of a row changes only in the step of update_rule or deactivate_rule on
\* that row between lock_rule and unlock_rule, and then by exactly 1, which is what
\* each call that returns has done; a call that raises because of a lock conflict, a
\* missing rule or the approval state leaves the rule table as it was, and so do the
\* rebuild of the pipeline and unlock_rule.
C39_VersionMonotonic ==
    [][ /\ \A r \in DOMAIN BRM_RULES \cap DOMAIN BRM_RULES' :
              /\ BRM_RULES'[r].VERSION >= BRM_RULES[r].VERSION
              /\ BRM_RULES'[r].VERSION # BRM_RULES[r].VERSION
                   => /\ BRM_RULES'[r].VERSION = BRM_RULES[r].VERSION + 1
                      /\ crud.pc = "locked"
                      /\ crud.op \in {"update_rule", "deactivate_rule"}
                      /\ crud.rule_id = r
        /\ \A r \in DOMAIN BRM_RULES' \ DOMAIN BRM_RULES :
              crud.op = "add_rule" /\ BRM_RULES'[r].VERSION = 1
        /\ (crud.pc = "locked" /\ crud'.pc = "mutated"
               /\ crud.op \in {"update_rule", "deactivate_rule"})
             => BRM_RULES'[crud.rule_id].VERSION = BRM_RULES[crud.rule_id].VERSION + 1
        /\ (crud'.pc = "raised"
               /\ crud'.msg \in LockConflictMessages \cup NotFoundMessages
                                   \cup ApprovalStateMessages)
             => BRM_RULES' = BRM_RULES
        /\ crud.pc \in {"mutated", "rebuilt"} => BRM_RULES' = BRM_RULES ]_vars

\* deactivate_rule has returned and has taken a rule from version 2 to version 3
C39_Witness ==
    /\ crud.op = "deactivate_rule"
    /\ crud.pc = "returned"
    /\ crud.rule_id \in DOMAIN BRM_RULES
    /\ crud.old_data.VERSION = 2
    /\ BRM_RULES[crud.rule_id].VERSION = 3

-----------------------------------------------------------------------------
(* what a rebuild of the pipeline leaves alone *)

\* the approval rows of the rules other than r, as a bag
ApprovalsOfOthers(approvals, r) ==
    [ row \in { x \in DOMAIN approvals : x.RULE_ID # r } |-> approvals[row] ]

\* C40: create_multistep_approvals on rule r leaves the rule with pending rows only, at
\* least one, none of them a row it had as approved; the approval rows of the other
\* rules, the rule table and the other tables of the graph, the approvers, the lock
\* table and the execution log are as they were.
C40_RebuildTouchesOwnRowsOnly ==
    [][ \A r \in RuleIds :
          (build' = Append(build, r)) =>
            /\ ApprovalsOfOthers(BRM_RULE_APPROVALS', r)
                 = ApprovalsOfOthers(BRM_RULE_APPROVALS, r)
            /\ DOMAIN ApprovalsOf(BRM_RULE_APPROVALS', r) # {}
            /\ \A row \in DOMAIN ApprovalsOf(BRM_RULE_APPROVALS', r) :
                 row.APPROVED_FLAG = 0
            /\ UNCHANGED <<tableVars, BUSINESS_GROUP_APPROVERS, RULE_LOCKS,
                           RULE_EXECUTION_LOGS>> ]_vars

\* the pipeline of rule 2 was built over approved rows of rules 1 and 2: the approved
\* row of rule 1 is in the table, rule 2 has pending rows only
C40_Witness ==
    /\ build = <<2>>
    /\ \E row \in DOMAIN BRM_RULE_APPROVALS :
         row.RULE_ID = 1 /\ row.USERNAME = "alice" /\ row.APPROVED_FLAG = 1
    /\ \E row \in DOMAIN BRM_RULE_APPROVALS : row.RULE_ID = 2
    /\ \A row \in DOMAIN BRM_RULE_APPROVALS : row.RULE_ID = 2 => row.APPROVED_FLAG = 0
====
